---- MODULE Spec2Model ----
(***************************************************************************)
(* Model of .github/scripts/deploy_to_workspace.py, the Fabric workspace   *)
(* deployer: the directory scanner, the dependency graph builder, the      *)
(* graph resolver, the remote client and the orchestrator main().          *)
(*                                                                         *)
(* A Python str is a sequence of one-character strings, so that lower(),   *)
(* rfind("."), concatenation and lexicographic order are computed as the   *)
(* code computes them.                                                     *)
(***************************************************************************)
EXTENDS Integers, Sequences, FiniteSets, TLC

VARIABLES
    sourceExists,   \* SOURCE_ROOT.is_dir()
    tree,           \* names of the directories directly under SOURCE_ROOT
    deployItem,     \* DEPLOY_ITEM, stripped; the empty string when not set
    remote,         \* the target workspace: set of [id, displayName, type, definition]
    nextId,         \* next identity the workspace assigns
    pc,             \* position of main()
    depGraph,       \* dep_graph
    deployFolders,  \* deploy_folders
    existing,       \* existing: (displayName_lower, type_lower) -> item id
    repoKeys,       \* repo_keys
    orderedItems,   \* ordered_items, as folder names
    idx,            \* position of the deploy loop in ordered_items
    results,        \* results: the tally
    allWsItems,     \* all_ws_items of step 4
    wsIdx,          \* position of the delete loop in all_ws_items
    calls,          \* remote calls issued by this run, in order
    outcomes,       \* per processed item of this run: the counter it went to
    lostWrite,      \* a write the client took for done was not carried out
    exitCode,       \* process exit status; -1 while running
    runNo,          \* 1 for the first run, 2 for a run repeated on the same tree
    faults,         \* remote responses other than a plain 200 so far
    misbehaved,     \* this run saw a response that is neither success nor async success
    prev,           \* the tally and exit status of the previous run
    args,           \* arguments of a library function applied on its own
    ret             \* its return value

orchVars == <<sourceExists, tree, deployItem, remote, nextId, pc, depGraph,
              deployFolders, existing, repoKeys, orderedItems, idx, results,
              allWsItems, wsIdx, calls, outcomes, lostWrite, exitCode, runNo, faults,
              misbehaved, prev>>

fnVars == <<args, ret>>

vars == <<orchVars, fnVars>>

\* Python's None where a str is expected: no str has an element longer than one character
None == <<"None">>

\* Python's None where a definition dict is expected
NoneDef == [none |-> TRUE]

----------------------------------------------------------------------------
(* Strings *)

Code ==
    ("." :> 46) @@ ("/" :> 47) @@
    ("A" :> 65) @@ ("B" :> 66) @@ ("C" :> 67) @@ ("D" :> 68) @@ ("E" :> 69) @@
    ("F" :> 70) @@ ("G" :> 71) @@ ("H" :> 72) @@ ("I" :> 73) @@ ("J" :> 74) @@
    ("K" :> 75) @@ ("L" :> 76) @@ ("M" :> 77) @@ ("N" :> 78) @@ ("O" :> 79) @@
    ("P" :> 80) @@ ("Q" :> 81) @@ ("R" :> 82) @@ ("S" :> 83) @@ ("T" :> 84) @@
    ("U" :> 85) @@ ("V" :> 86) @@ ("W" :> 87) @@ ("X" :> 88) @@ ("Y" :> 89) @@
    ("Z" :> 90) @@
    ("a" :> 97) @@ ("b" :> 98) @@ ("c" :> 99) @@ ("d" :> 100) @@ ("e" :> 101) @@
    ("f" :> 102) @@ ("g" :> 103) @@ ("h" :> 104) @@ ("i" :> 105) @@ ("j" :> 106) @@
    ("k" :> 107) @@ ("l" :> 108) @@ ("m" :> 109) @@ ("n" :> 110) @@ ("o" :> 111) @@
    ("p" :> 112) @@ ("q" :> 113) @@ ("r" :> 114) @@ ("s" :> 115) @@ ("t" :> 116) @@
    ("u" :> 117) @@ ("v" :> 118) @@ ("w" :> 119) @@ ("x" :> 120) @@ ("y" :> 121) @@
    ("z" :> 122)

LowerChar ==
    [c \in DOMAIN Code |->
        IF Code[c] >= 65 /\ Code[c] <= 90
        THEN CHOOSE d \in DOMAIN Code : Code[d] = Code[c] + 32
        ELSE c]

\* str.lower()
Lower(s) == [i \in 1..Len(s) |-> LowerChar[s[i]]]

\* the position of the first ".", 0 when there is none
RFindDot_first(s) ==
    IF \E i \in 1..Len(s) : s[i] = "."
    THEN CHOOSE i \in 1..Len(s) : s[i] = "." /\ \A j \in 1..(i-1) : s[j] # "."
    ELSE 0

\* str.rfind("."): the 1-based position of the last dot, 0 when there is none
\* (Python's 0-based position with -1 for none, shifted by one)
RFindDot(s) ==
    IF \E i \in 1..Len(s) : s[i] = "."
    THEN CHOOSE i \in 1..Len(s) : s[i] = "." /\ \A j \in (i+1)..Len(s) : s[j] # "."
    ELSE 0

\* Python's < on str: lexicographic by code point, a proper prefix first
RECURSIVE StrLess(_, _)
StrLess(a, b) ==
    IF b = <<>> THEN FALSE
    ELSE IF a = <<>> THEN TRUE
    ELSE IF Code[Head(a)] # Code[Head(b)] THEN Code[Head(a)] < Code[Head(b)]
    ELSE StrLess(Tail(a), Tail(b))

\* sorted(S) for a set of str
RECURSIVE Sorted(_)
Sorted(S) ==
    IF S = {} THEN <<>>
    ELSE LET m == CHOOSE x \in S : \A y \in S \ {x} : StrLess(x, y)
         IN  <<m>> \o Sorted(S \ {m})

Range(q) == {q[i] : i \in 1..Len(q)}

----------------------------------------------------------------------------
(* Configuration *)

T_SQLAnalyticsEndpoint == <<"S","Q","L","A","n","a","l","y","t","i","c","s","E","n","d","p","o","i","n","t">>
T_SQLEndpoint == <<"S","Q","L","E","n","d","p","o","i","n","t">>
T_Dashboard == <<"D","a","s","h","b","o","a","r","d">>
T_MountedWarehouse == <<"M","o","u","n","t","e","d","W","a","r","e","h","o","u","s","e">>
T_MountedDataFactory == <<"M","o","u","n","t","e","d","D","a","t","a","F","a","c","t","o","r","y">>
T_Lakehouse == <<"L","a","k","e","h","o","u","s","e">>
T_Environment == <<"E","n","v","i","r","o","n","m","e","n","t">>
T_SQLDatabase == <<"S","Q","L","D","a","t","a","b","a","s","e">>
T_Warehouse == <<"W","a","r","e","h","o","u","s","e">>
T_Notebook == <<"N","o","t","e","b","o","o","k">>
T_SemanticModel == <<"S","e","m","a","n","t","i","c","M","o","d","e","l">>
T_Report == <<"R","e","p","o","r","t">>

NO_DEPLOY_TYPES ==
    {T_SQLAnalyticsEndpoint, T_SQLEndpoint, T_Dashboard, T_MountedWarehouse,
     T_MountedDataFactory}

METADATA_ONLY_TYPES == {T_Lakehouse, T_Environment, T_SQLDatabase, T_Warehouse}

DotPlatform == <<".","p","l","a","t","f","o","r","m">>

EXCLUDED_FILES == {DotPlatform}

POLL_MAX == 72

----------------------------------------------------------------------------
(* Graph resolver *)

\* graph.get(item, set())
GraphGet(graph, item) == IF item \in DOMAIN graph THEN graph[item] ELSE {}

\* resolve_transitive: the loop over the stack, one pop per step
RECURSIVE ResolveLoop(_, _, _)
ResolveLoop(graph, stack, result) ==
    IF stack = <<>> THEN result
    ELSE LET current == stack[Len(stack)]
             rest    == SubSeq(stack, 1, Len(stack) - 1)
         IN  IF current \in result
             THEN ResolveLoop(graph, rest, result)
             ELSE LET result2 == result \cup {current}
                      pushed  == Sorted({dep \in GraphGet(graph, current) :
                                            dep \notin result2})
                  IN  ResolveLoop(graph, rest \o pushed, result2)

\* a resolver that stops at the direct dependencies
resolve_transitive_direct(graph, start) == {start} \cup GraphGet(graph, start)

resolve_transitive(graph, start) == ResolveLoop(graph, <<start>>, {})

\* topo_sort: visit(item) on the state [visited, result]
RECURSIVE TopoVisit(_, _, _, _)
RECURSIVE TopoVisitDeps(_, _, _, _)
TopoVisit(item, st, items, graph) ==
    IF item \in st.visited THEN st
    ELSE LET st1 == [st EXCEPT !.visited = @ \cup {item}]
             st2 == TopoVisitDeps(Sorted(GraphGet(graph, item)), st1, items, graph)
         IN  [st2 EXCEPT !.result = Append(@, item)]

TopoVisitDeps(deps, st, items, graph) ==
    IF deps = <<>> THEN st
    ELSE LET st1 == IF Head(deps) \in items
                    THEN TopoVisit(Head(deps), st, items, graph)
                    ELSE st
         IN  TopoVisitDeps(Tail(deps), st1, items, graph)

RECURSIVE TopoLoop(_, _, _, _)
TopoLoop(todo, st, items, graph) ==
    IF todo = <<>> THEN st
    ELSE TopoLoop(Tail(todo), TopoVisit(Head(todo), st, items, graph), items, graph)

\* the names in descending order
RECURSIVE ReverseSeq(_)
ReverseSeq(q) == IF q = << >> THEN << >> ELSE Append(ReverseSeq(Tail(q)), Head(q))

topo_sort_descending(items, graph) == ReverseSeq(Sorted(items))

\* an order over the keys of the graph only
topo_sort_keysOnly(items, graph) == Sorted(items \cap DOMAIN graph)

\* an order that looks at the names only
topo_sort_by_name(items, graph) == Sorted(items)

topo_sort(items, graph) ==
    TopoLoop(Sorted(items), [visited |-> {}, result |-> <<>>], items, graph).result

----------------------------------------------------------------------------
(* The local tree.  A directory under SOURCE_ROOT is known by its name; what  *)
(* its files hold is given per directory: the META blocks of its *.py files   *)
(* (what _extract_meta_json returns for them), whether a *.tmdl file contains *)
(* "Sql.Database", the datasetName of its *.pbir files, and its files.        *)

F_A_Lakehouse == <<"A", ".">> \o T_Lakehouse
F_B_Notebook  == <<"B", ".">> \o T_Notebook
F_dv_Notebook == <<"d", ".", "v", ".">> \o T_Notebook
F_M_SemanticModel == <<"M", ".">> \o T_SemanticModel
F_R_Report    == <<"R", ".">> \o T_Report
F_D_Dashboard == <<"D", ".">> \o T_Dashboard
F_a_lakehouse == <<"a", ".">> \o Lower(T_Lakehouse)
F_nodot       == <<"n", "o", "d", "o", "t">>
F_L_Lakehouse == <<"L", ".">> \o T_Lakehouse
F_E_Environment == <<"E", ".">> \o T_Environment
F_v_environment == <<"v", ".">> \o Lower(T_Environment)
F_n_notebook  == <<"n", ".">> \o Lower(T_Notebook)
F_p_semanticmodel == <<"p", ".">> \o Lower(T_SemanticModel)
F_r_report    == <<"r", ".">> \o Lower(T_Report)

P_nb   == <<"n","b",".","p","y">>
P_tmdl == <<"m",".","t","m","d","l">>

\* bytes: raw names the byte string; isZip tells whether zipfile can open it,
\* members are then its entries [filename, CRC, file_size] in archive order
RawBytes(n) == [raw |-> n, isZip |-> FALSE, members |-> << >>]

\* b64encode / b64decode: the payload carries the bytes under the encoding's tag
b64encode(data) == <<"b64", data>>
b64decode(payload) == payload[2]

\* json: meta.get("dependencies", {}) of every META block of the *.py files:
\* lakehouse.default_lakehouse_name (None when absent) and the value under the
\* key "environment" ("absent" when the key is not there)
Metas(folder) ==
    CASE folder = F_B_Notebook -> << [lh_name |-> <<"A">>, env |-> "absent"] >>
      [] folder = F_dv_Notebook -> << [lh_name |-> <<"a">>, env |-> "{environmentId}"] >>
      [] folder = F_n_notebook -> << [lh_name |-> None, env |-> "absent"],
                                     [lh_name |-> << >>, env |-> "null"] >>
      [] folder = F_a_lakehouse -> << [lh_name |-> <<"L">>, env |-> "{}"] >>
      [] OTHER -> << >>

S_SqlDatabase == <<"S","q","l",".","D","a","t","a","b","a","s","e">>

\* the text of each *.tmdl file of the folder
TmdlContents(folder) ==
    CASE folder = F_p_semanticmodel -> {<<"x", "=">> \o S_SqlDatabase \o <<"(">>}
      [] folder = F_M_SemanticModel ->
            {Lower(S_SqlDatabase), SubSeq(S_SqlDatabase, 1, 11) \o <<"(">>}
      [] OTHER -> {}

\* needle in content
Contains(content, needle) ==
    \E i \in 1..(Len(content) - Len(needle) + 1) :
       SubSeq(content, i, i + Len(needle) - 1) = needle

\* whether some *.tmdl file of the folder contains "Sql.Database"
TmdlHasSqlDatabase(folder) ==
    \E content \in TmdlContents(folder) : Contains(content, S_SqlDatabase)

\* datasetReference.byPath.datasetName of each *.pbir file of the folder
PbirDatasetNames(folder) ==
    CASE folder = F_R_Report -> << <<"M">> >>
      [] folder = F_r_report -> << None, <<"p">> >>
      [] OTHER -> << >>

\* the files under the folder: [path, data]
Files(folder) ==
    LET platform == [path |-> DotPlatform, data |-> RawBytes(0)]
    IN  CASE folder = F_B_Notebook -> {platform, [path |-> P_nb, data |-> RawBytes(1)]}
          [] folder = F_dv_Notebook -> {platform, [path |-> P_nb, data |-> RawBytes(2)]}
          [] folder = F_M_SemanticModel -> {platform, [path |-> P_tmdl, data |-> RawBytes(3)]}
          [] folder = F_a_lakehouse -> {platform, [path |-> P_nb, data |-> RawBytes(5)]}
          [] folder = F_D_Dashboard -> {platform, [path |-> P_nb, data |-> RawBytes(4)]}
          [] folder = F_nodot -> {[path |-> P_nb, data |-> RawBytes(1)]}
          [] folder = F_r_report -> {}
          [] OTHER -> {platform}

----------------------------------------------------------------------------
(* Directory scanner *)

DisplayNameOf(folder) == SubSeq(folder, 1, RFindDot(folder) - 1)
ItemTypeOf(folder) == SubSeq(folder, RFindDot(folder) + 1, Len(folder))

\* iter_item_dirs: the folders with a "." separator, sorted
iter_item_dirs(source) == SelectSeq(Sorted(source), LAMBDA f : RFindDot(f) # 0)

\* a lookup that hands the requested name back when no directory matches
find_item_folder_echo(source, user_input) == user_input

\* find_item_folder: case-insensitive match against the directory names
find_item_folder(source, user_input) ==
    LET hits == SelectSeq(Sorted(source), LAMBDA f : Lower(f) = Lower(user_input))
    IN  IF hits = <<>> THEN None ELSE Head(hits)

----------------------------------------------------------------------------
(* Dependency graph builder *)

S_dot_lakehouse == <<".","l","a","k","e","h","o","u","s","e">>
S_dot_semanticmodel == <<".","s","e","m","a","n","t","i","c","m","o","d","e","l">>
S_environment == <<"e","n","v","i","r","o","n","m","e","n","t">>
S_lakehouse == <<"l","a","k","e","h","o","u","s","e">>
S_notebook == <<"n","o","t","e","b","o","o","k">>
S_semanticmodel == <<"s","e","m","a","n","t","i","c","m","o","d","e","l">>
S_report == <<"r","e","p","o","r","t">>

\* type_index.get(t, [])
TypeIndexGet(type_index, t) == IF t \in DOMAIN type_index THEN type_index[t] ELSE <<>>

\* a test that takes a null value for a missing key
HasEnvironmentKey_truthy(meta) == meta.env \notin {"absent", "null", "{}"}

\* line 586: "environment" in dependencies
HasEnvironmentKey(meta) == meta.env # "absent"

\* the dependencies one META block contributes
NotebookMetaDeps(meta, name_index, type_index) ==
    LET key == meta.lh_name \o S_dot_lakehouse
        lh  == IF meta.lh_name # None /\ meta.lh_name # <<>> /\ key \in DOMAIN name_index
               THEN {name_index[key]} ELSE {}
        env == IF HasEnvironmentKey(meta)
               THEN Range(TypeIndexGet(type_index, S_environment)) ELSE {}
    IN  lh \cup env

parse_notebook_deps(folder, name_index, type_index) ==
    UNION {NotebookMetaDeps(Metas(folder)[i], name_index, type_index) :
              i \in 1..Len(Metas(folder))}

\* a parser that stops at the first lakehouse of the type index
parse_semantic_model_deps_first(folder, name_index, type_index) ==
    IF TmdlHasSqlDatabase(folder) /\ TypeIndexGet(type_index, S_lakehouse) # << >>
    THEN {Head(TypeIndexGet(type_index, S_lakehouse))}
    ELSE {}

parse_semantic_model_deps(folder, name_index, type_index) ==
    IF TmdlHasSqlDatabase(folder)
    THEN Range(TypeIndexGet(type_index, S_lakehouse))
    ELSE {}

\* the dependency one *.pbir file contributes
ReportPbirDeps(ds_name, name_index) ==
    LET key == ds_name \o S_dot_semanticmodel
    IN  IF ds_name # None /\ ds_name # <<>> /\ key \in DOMAIN name_index
        THEN {name_index[key]} ELSE {}

parse_report_deps(folder, name_index, type_index) ==
    UNION {ReportPbirDeps(PbirDatasetNames(folder)[i], name_index) :
              i \in 1..Len(PbirDatasetNames(folder))}

\* name_index and type_index, filled in sorted directory order
RECURSIVE BuildIndexes(_, _)
BuildIndexes(dirs, ix) ==
    IF dirs = <<>> THEN ix
    ELSE LET folder == Head(dirs)
             t      == Lower(ItemTypeOf(folder))
         IN  IF RFindDot(folder) = 0
             THEN BuildIndexes(Tail(dirs), ix)
             ELSE BuildIndexes(Tail(dirs),
                    [name_index |-> (Lower(folder) :> folder) @@ ix.name_index,
                     type_index |-> (t :> Append(TypeIndexGet(ix.type_index, t), folder))
                                    @@ ix.type_index])

\* _DEP_PARSERS.get(item_type) applied to the folder
DepsOf(folder, ix) ==
    LET t == Lower(ItemTypeOf(folder))
    IN  CASE t = S_notebook -> parse_notebook_deps(folder, ix.name_index, ix.type_index)
          [] t = S_semanticmodel -> parse_semantic_model_deps(folder, ix.name_index, ix.type_index)
          [] t = S_report -> parse_report_deps(folder, ix.name_index, ix.type_index)
          [] OTHER -> {}

build_dependency_graph(source) ==
    LET ix == BuildIndexes(Sorted(source), [name_index |-> <<>>, type_index |-> <<>>])
        folders == {ix.name_index[k] : k \in DOMAIN ix.name_index}
    IN  [folder \in folders |-> DepsOf(folder, ix)]

----------------------------------------------------------------------------
(* Part encoder *)

\* PurePosixPath(path).name: what follows the last "/"
RECURSIVE PathName(_)
PathName(path) ==
    IF \E i \in 1..Len(path) : path[i] = "/" THEN PathName(Tail(path)) ELSE path

\* PurePath.parts of a relative path: the names between the "/"
RECURSIVE PathParts(_)
PathParts(path) ==
    IF \E i \in 1..Len(path) : path[i] = "/"
    THEN LET i == CHOOSE i \in 1..Len(path) :
                     path[i] = "/" /\ \A j \in 1..(i - 1) : path[j] # "/"
         IN  <<SubSeq(path, 1, i - 1)>> \o PathParts(SubSeq(path, i + 1, Len(path)))
    ELSE <<path>>

\* Python's < on lists of str: the first names that differ decide, a proper
\* prefix comes first
RECURSIVE PartsLess(_, _)
PartsLess(a, b) ==
    IF b = << >> THEN FALSE
    ELSE IF a = << >> THEN TRUE
    ELSE IF Head(a) # Head(b) THEN StrLess(Head(a), Head(b))
    ELSE PartsLess(Tail(a), Tail(b))

\* an order on the paths written as strings
PathLess_asString(p, q) == StrLess(p, q)

\* < on pathlib.Path: the parts of the two paths are compared
PathLess(p, q) == PartsLess(PathParts(p), PathParts(q))

\* sorted(item_dir.rglob("*")): the files of the walk, whatever its order, by <
\* on their paths
RECURSIVE SortFiles(_)
SortFiles(walk) ==
    IF walk = << >> THEN << >>
    ELSE LET rest == SortFiles(Tail(walk))
             k    == Cardinality({i \in 1..Len(rest) :
                                    PathLess(rest[i].path, Head(walk).path)})
         IN  SubSeq(rest, 1, k) \o <<Head(walk)>> \o SubSeq(rest, k + 1, Len(rest))

\* the part of one file
EncodePart(f) ==
    [path |-> f.path, payload |-> b64encode(f.data), payloadType |-> "InlineBase64"]

\* the loop of build_parts over a walk of the item folder
BuildPartsOf(walk) ==
    LET kept == SelectSeq(SortFiles(walk),
                          LAMBDA f : PathName(f.path) \notin EXCLUDED_FILES)
    IN  [i \in 1..Len(kept) |-> EncodePart(kept[i])]

\* item_dir.rglob("*") of a folder of the tree: its files in some order
RECURSIVE rglob(_)
rglob(files) ==
    IF files = {} THEN << >>
    ELSE LET f == CHOOSE f \in files : TRUE
         IN  <<f>> \o rglob(files \ {f})

\* an encoder that sends the excluded files as well
build_parts_withExcluded(folder) ==
    LET sorted == SortFiles(rglob(Files(folder)))
    IN  [i \in 1..Len(sorted) |-> EncodePart(sorted[i])]

\* build_parts: the files in sorted path order, without the excluded ones
build_parts(folder) == BuildPartsOf(rglob(Files(folder)))

----------------------------------------------------------------------------
(* Content comparator *)

ZIP_EXTENSIONS == {<<".","d","a","c","p","a","c">>, <<".","b","a","c","p","a","c">>, <<".","n","u","p","k","g">>}

ZIP_VOLATILE_MEMBERS == {<<"D","a","c","M","e","t","a","d","a","t","a",".","x","m","l">>, <<"O","r","i","g","i","n",".","x","m","l">>}

\* PurePosixPath(path).suffix
PathSuffix(path) ==
    LET name == PathName(path)
        i    == RFindDot(name)
    IN  IF 1 < i /\ i < Len(name) THEN SubSeq(name, i, Len(name)) ELSE << >>

\* Python's < on the tuples (filename, CRC, file_size)
MemberLess(a, b) ==
    IF a.filename # b.filename THEN StrLess(a.filename, b.filename)
    ELSE IF a.CRC # b.CRC THEN a.CRC < b.CRC
    ELSE a.file_size < b.file_size

\* sorted(...) of a list of member tuples, duplicates kept
RECURSIVE SortMembers(_)
SortMembers(q) ==
    IF q = << >> THEN << >>
    ELSE LET i == CHOOSE i \in 1..Len(q) : \A j \in 1..Len(q) : ~MemberLess(q[j], q[i])
         IN  <<q[i]>> \o SortMembers(SubSeq(q, 1, i - 1) \o SubSeq(q, i + 1, Len(q)))

\* a signature that keeps the volatile members
zip_contents_signature_all(data) ==
    IF data.isZip THEN SortMembers(data.members) ELSE << >>

zip_contents_signature(data) ==
    IF data.isZip
    THEN SortMembers(SelectSeq(data.members,
                               LAMBDA m : m.filename \notin ZIP_VOLATILE_MEMBERS))
    ELSE << >>

\* a comparison that looks at the paths only
bytes_equal_always(a, b, path) == TRUE

bytes_equal(a, b, path) ==
    IF Lower(PathSuffix(path)) \in ZIP_EXTENSIONS
    THEN zip_contents_signature(a) = zip_contents_signature(b)
    ELSE a = b

\* the decoded payload of a part: base64, or text encoded as UTF-8
PartBytes(part) ==
    IF part.payloadType = "InlineBase64" THEN b64decode(part.payload) ELSE part.payload[2]

\* path -> bytes; a later part with the same path replaces an earlier one
RECURSIVE ByPath(_, _)
ByPath(parts, acc) ==
    IF parts = << >> THEN acc
    ELSE ByPath(Tail(parts), (Head(parts).path :> PartBytes(Head(parts))) @@ acc)

\* a comparator that takes an absent definition for a match
definitions_match_absentEqual(local_parts, remote_definition) ==
    remote_definition = NoneDef

\* a comparator that never reports a match
definitions_match_never(local_parts, remote_definition) == FALSE

\* a comparator that keeps the .platform parts of the remote definition
definitions_match_platformCompared(local_parts, remote_definition) ==
    IF remote_definition = NoneDef THEN FALSE
    ELSE LET remote_by_path == ByPath(remote_definition.parts, << >>)
             local_by_path == ByPath(local_parts, << >>)
         IN  IF DOMAIN local_by_path # DOMAIN remote_by_path THEN FALSE
             ELSE \A path \in DOMAIN local_by_path :
                     bytes_equal(local_by_path[path], remote_by_path[path], path)

definitions_match(local_parts, remote_definition) ==
    IF remote_definition = NoneDef THEN FALSE
    ELSE LET remote_by_path ==
                 ByPath(SelectSeq(remote_definition.parts,
                                  LAMBDA q : PathName(q.path) \notin EXCLUDED_FILES), << >>)
             local_by_path == ByPath(local_parts, << >>)
         IN  IF DOMAIN local_by_path # DOMAIN remote_by_path THEN FALSE
             ELSE \A path \in DOMAIN local_by_path :
                     bytes_equal(local_by_path[path], remote_by_path[path], path)

----------------------------------------------------------------------------
(* Remote client.  A response is what the service answers to one request:   *)
(* status is the HTTP status (0: the transport raised), opId whether a 202  *)
(* names its operation, lro the statuses the operation then reports to the  *)
(* successive polls (running once the list is used up), hasBody whether the *)
(* final answer carries a result body.                                      *)

Response(status, opId, lro, hasBody) ==
    [status |-> status, opId |-> opId, lro |-> lro, hasBody |-> hasBody]

\* the outcome of a client function: the exception it raises, or "none"
Raise(exc, polls) == [exc |-> exc, polls |-> polls, body |-> FALSE]
Return(polls, body) == [exc |-> "none", polls |-> polls, body |-> body]

\* body.get("status", "").lower(), for the statuses the service reports;
\* "http_error" stands for a status request answered with an error status
status_lower(status) ==
    CASE status = "NotStarted" -> "notstarted"
      [] status = "Running" -> "running"
      [] status = "Succeeded" -> "succeeded"
      [] status = "Failed" -> "failed"
      [] status = "Cancelled" -> "cancelled"
      [] OTHER -> status

\* poll_lro: the status the poll of an attempt reads
StatusAt(resp, attempt) ==
    IF attempt <= Len(resp.lro) THEN status_lower(resp.lro[attempt]) ELSE "running"

\* a terminal status that is treated like a running one
IsFailure_failedOnly(status) == status = "failed"

\* line 161: status in ("failed", "cancelled")
IsFailure(status) == status \in {"failed", "cancelled"}

\* a timeout raised as the fault of a failed operation
TimeoutFault_asFailure == "RuntimeError"

\* line 168: the fault raised when the loop is used up
TimeoutFault == "TimeoutError"

\* poll_lro: attempt = 1 .. POLL_MAX; the loop ends at the first attempt whose
\* poll reads a terminal status or fails, or after POLL_MAX attempts
poll_lro(resp) ==
    LET ended == {a \in 1..POLL_MAX :
                    \/ StatusAt(resp, a) \in {"succeeded", "http_error"}
                    \/ IsFailure(StatusAt(resp, a))}
    IN  IF ended = {} THEN Raise(TimeoutFault, POLL_MAX)
        ELSE LET attempt == CHOOSE a \in ended : \A o \in ended : a <= o
             IN  IF StatusAt(resp, attempt) = "succeeded"
                 THEN Return(attempt, resp.hasBody)
                 ELSE IF StatusAt(resp, attempt) = "http_error"
                 THEN Raise("HTTPError", attempt)
                 ELSE Raise("RuntimeError", attempt)

\* a 202 polled whether or not it names an operation
handle_response_pollsAnyway(resp) ==
    IF resp.status = 0 THEN Raise("ConnectionError", 0)
    ELSE IF resp.status \in {200, 201} THEN Return(0, resp.hasBody)
    ELSE IF resp.status = 202 THEN poll_lro(resp)
    ELSE Raise("HTTPError", 0)

handle_response(resp) ==
    IF resp.status = 0 THEN Raise("ConnectionError", 0)
    ELSE IF resp.status \in {200, 201} THEN Return(0, resp.hasBody)
    ELSE IF resp.status = 202
         THEN IF ~resp.opId THEN Raise("RuntimeError", 0) ELSE poll_lro(resp)
    ELSE Raise("HTTPError", 0)

\* get_remote_definition: the definition returned (NoneDef for None), the
\* exception it raises, and the exception of poll_lro it catches (lines 315-320)
GetDefResult(exc, swallowed, polls, definition) ==
    [exc |-> exc, swallowed |-> swallowed, polls |-> polls, definition |-> definition]

get_remote_definition(resp, stored) ==
    IF resp.status = 0 THEN GetDefResult("ConnectionError", "none", 0, NoneDef)
    ELSE IF resp.status \in {400, 404} THEN GetDefResult("none", "none", 0, NoneDef)
    ELSE IF resp.status = 200
         THEN IF resp.hasBody
              THEN GetDefResult("none", "none", 0, stored)
              ELSE GetDefResult("JSONDecodeError", "none", 0, NoneDef)
    ELSE IF resp.status = 202
         THEN IF ~resp.opId THEN GetDefResult("none", "none", 0, NoneDef)
              ELSE LET r == poll_lro(resp)
                   IN  IF r.exc # "none"
                       THEN GetDefResult("none", r.exc, r.polls, NoneDef)
                       ELSE GetDefResult("none", "none", r.polls,
                                         IF r.body THEN stored ELSE NoneDef)
    ELSE GetDefResult("none", "none", 0, NoneDef)

update_item_definition(resp) ==
    IF resp.status = 0 THEN Raise("ConnectionError", 0)
    ELSE IF resp.status \in {400, 404} THEN Raise("UpdateFailed", 0)
    ELSE handle_response(resp)

\* create_item_with_definition and create_item_no_definition: result.get("id", "")
create_item(resp) == handle_response(resp)

\* a delete that takes a not-found answer for a failure
delete_item_strict(resp) ==
    IF resp.status = 0 THEN Raise("ConnectionError", 0)
    ELSE IF resp.status >= 400 THEN Raise("RuntimeError", 0)
    ELSE Return(0, FALSE)

delete_item(resp) ==
    IF resp.status = 0 THEN Raise("ConnectionError", 0)
    ELSE IF resp.status = 404 THEN Return(0, FALSE)
    ELSE IF resp.status >= 400 THEN Raise("RuntimeError", 0)
    ELSE Return(0, FALSE)

\* whether the service carried the requested change out
Applied(resp) ==
    \/ resp.status \in {200, 201}
    \/ resp.status = 202 /\ "succeeded" \in Range(resp.lro)

----------------------------------------------------------------------------
(* Bounds and the inputs of a run *)

MaxLocal  == 2    \* directories under SOURCE_ROOT
MaxRemote == 2    \* items in the workspace before the first run
MaxFaults == 1    \* responses other than a plain 200, over the runs

F_X_Report == <<"X", ".">> \o T_Report

LocalCatalog ==
    {F_A_Lakehouse, F_a_lakehouse, F_B_Notebook, F_dv_Notebook, F_R_Report,
     F_D_Dashboard, F_nodot}

\* the (displayName_lower, type_lower) key of a folder or of a workspace item
KeyOf(display_name, item_type) == <<Lower(display_name), Lower(item_type)>>
FolderKey(folder) == KeyOf(DisplayNameOf(folder), ItemTypeOf(folder))
ItemKey(item) == KeyOf(item.displayName, item.type)

\* a report that names a semantic model that reads from a lakehouse
ChainTree == {F_r_report, F_p_semanticmodel, F_L_Lakehouse}

\* the trees of a run: up to MaxLocal directories, no two names differing in
\* case only, and the chain of three
Trees ==
    {t \in SUBSET LocalCatalog :
        /\ Cardinality(t) <= MaxLocal
        /\ \A f, g \in t : Lower(f) = Lower(g) => f = g}
    \cup {ChainTree}

DeployItems ==
    {<< >>, F_B_Notebook, Lower(F_dv_Notebook), F_nodot, F_X_Report, F_r_report}

WsItem(id, display_name, item_type, definition) ==
    [id |-> id, displayName |-> display_name, type |-> item_type,
     definition |-> definition]

PartsDef(parts) == [parts |-> parts]

\* the workspace items a run may find: a lakehouse, a notebook that differs from
\* B.Notebook in the case of its name only, a notebook whose definition differs
\* from that of d.v.Notebook, an auto-generated SQL endpoint, and a report with
\* the name of R.Report, a folder without deployable files
RemoteCatalog ==
    {WsItem(1, <<"A">>, T_Lakehouse, NoneDef),
     WsItem(2, <<"b">>, T_Notebook, PartsDef(build_parts(F_B_Notebook))),
     WsItem(3, <<"d", ".", "v">>, T_Notebook, PartsDef(build_parts(F_B_Notebook))),
     WsItem(4, <<"S">>, T_SQLEndpoint, NoneDef),
     WsItem(5, <<"R">>, T_Report, PartsDef(build_parts(F_B_Notebook)))}

Workspaces ==
    {w \in SUBSET RemoteCatalog :
        /\ Cardinality(w) <= MaxRemote
        /\ \A a, b \in w : ItemKey(a) = ItemKey(b) => a = b}

R200         == Response(200, FALSE, << >>, TRUE)
R202ok       == Response(202, TRUE, <<"running", "succeeded">>, TRUE)
R202nobody   == Response(202, TRUE, <<"succeeded">>, FALSE)
R202failed   == Response(202, TRUE, <<"failed">>, FALSE)
R202stuck    == Response(202, TRUE, << >>, FALSE)
R202noop     == Response(202, FALSE, <<"succeeded">>, TRUE)
R400         == Response(400, FALSE, << >>, TRUE)
R404         == Response(404, FALSE, << >>, TRUE)
R500         == Response(500, FALSE, << >>, TRUE)
RTransport   == Response(0, FALSE, << >>, FALSE)

Responses ==
    {R200, R202ok, R202nobody, R202failed, R202stuck, R202noop, R400, R404, R500,
     RTransport}

\* the responses the fault budget still allows after n of them
Allowed(n) == IF n < MaxFaults THEN Responses ELSE {R200}
Cost(resp) == IF resp = R200 THEN 0 ELSE 1
WellBehaved(resp) == resp \in {R200, R202ok}

ZeroResults == [deployed |-> 0, created |-> 0, deleted |-> 0, skipped |-> 0, errors |-> 0]

\* a remote call: the folder it is issued for (empty outside the deploy loop),
\* the name and type sent or, for a call on an item id, the workspace item's,
\* the exception the client function raised and the one it caught itself;
\* absent tells that get_remote_definition returned None
Call(op, id, folder, display_name, item_type, exc, swallowed) ==
    [op |-> op, id |-> id, folder |-> folder, displayName |-> display_name,
     type |-> item_type, exc |-> exc, swallowed |-> swallowed, absent |-> FALSE]

PlainCall(op, exc) == Call(op, 0, << >>, << >>, << >>, exc, "none")

selective == deployItem # << >>

----------------------------------------------------------------------------
(* main() *)

cfgVars == <<sourceExists, tree, deployItem>>
svcVars == <<remote, nextId>>
respVars == <<faults, misbehaved>>
runVars == <<depGraph, deployFolders, existing, repoKeys, orderedItems, idx, results,
             outcomes, allWsItems, wsIdx>>

Init ==
    /\ sourceExists \in BOOLEAN
    /\ tree \in IF sourceExists THEN Trees ELSE {{}}
    /\ deployItem \in DeployItems
    /\ remote \in Workspaces
    /\ nextId = 6
    /\ pc = "start"
    /\ depGraph = << >>
    /\ deployFolders = {}
    /\ existing = << >>
    /\ repoKeys = {}
    /\ orderedItems = << >>
    /\ idx = 1
    /\ results = ZeroResults
    /\ allWsItems = << >>
    /\ wsIdx = 1
    /\ calls = << >>
    /\ outcomes = << >>
    /\ lostWrite = FALSE
    /\ exitCode = -1
    /\ runNo = 1
    /\ faults = 0
    /\ misbehaved = FALSE
    /\ prev = [results |-> ZeroResults, exitCode |-> -1]
    /\ args = << >>
    /\ ret = << >>

\* sys.exit(code), or an exception nothing catches (exit status 1)
Exit(where, code) ==
    /\ pc' = where
    /\ exitCode' = code

\* the service answered with the responses resps
Answered(resps) ==
    /\ faults' = faults + Cardinality({r \in resps : Cost(r) = 1})
    /\ misbehaved' = (misbehaved \/ \E r \in resps : ~WellBehaved(r))

\* lines 746-749: the source directory must exist
CheckSource ==
    /\ pc = "start"
    /\ IF sourceExists
       THEN pc' = "resolve" /\ UNCHANGED exitCode
       ELSE Exit("abort_precondition", 1)
    /\ UNCHANGED <<cfgVars, svcVars, respVars, runVars, calls, lostWrite, runNo, prev,
                   fnVars>>

\* lines 751-772: step 0, the deploy set of a selective run
ResolveDeploySet ==
    /\ pc = "resolve"
    /\ IF ~selective
       THEN /\ pc' = "auth"
            /\ UNCHANGED <<exitCode, depGraph, deployFolders>>
       ELSE LET matched_folder == find_item_folder(tree, deployItem)
            IN  IF matched_folder = None
                THEN /\ Exit("abort_precondition", 1)
                     /\ UNCHANGED <<depGraph, deployFolders>>
                ELSE /\ pc' = "auth"
                     /\ depGraph' = build_dependency_graph(tree)
                     /\ deployFolders' = resolve_transitive(depGraph', matched_folder)
                     /\ UNCHANGED exitCode
    /\ UNCHANGED <<cfgVars, svcVars, respVars, existing, repoKeys, orderedItems, idx,
                   results, outcomes, allWsItems, wsIdx, calls, lostWrite, runNo, prev,
                   fnVars>>

\* lines 774-783: step 1, get_access_token
Authenticate ==
    /\ pc = "auth"
    /\ \E resp \in Allowed(faults) \cap {R200, R500} :
          /\ Answered({resp})
          /\ IF resp = R200
             THEN /\ calls' = Append(calls, PlainCall("auth", "none"))
                  /\ pc' = "inventory"
                  /\ UNCHANGED exitCode
             ELSE /\ calls' = Append(calls, PlainCall("auth", "HTTPError"))
                  /\ Exit("abort_auth", 1)
    /\ UNCHANGED <<cfgVars, svcVars, runVars, lostWrite, runNo, prev, fnVars>>

\* the workspace as the listing returns it, in the order of the item ids
RECURSIVE ById(_, _)
ById(ws, ids) ==
    IF ids = {} THEN << >>
    ELSE LET m == CHOOSE x \in ids : \A y \in ids : x <= y
         IN  <<CHOOSE w \in ws : w.id = m>> \o ById(ws, ids \ {m})

list_workspace_items_full(ws) == ById(ws, {w.id : w \in ws})

\* list_workspace_items: the index over the listed items, a later one replacing
\* an earlier one with the same key
RECURSIVE IndexOf(_, _)
IndexOf(items, index) ==
    IF items = << >> THEN index
    ELSE IndexOf(Tail(items), (ItemKey(Head(items)) :> Head(items).id) @@ index)

list_workspace_items(ws) == IndexOf(list_workspace_items_full(ws), << >>)

\* an iteration order that does not look at the deploy set
OrderedItems_all(sel, source, deploy_folders, dep_graph) == iter_item_dirs(source)

\* lines 800-813: the iteration order
OrderedItems(sel, source, deploy_folders, dep_graph) ==
    IF sel
    THEN SelectSeq(topo_sort(deploy_folders, dep_graph), LAMBDA f : RFindDot(f) # 0)
    ELSE iter_item_dirs(source)

\* lines 785-813: step 2, the inventory, and the start of step 3
ListInventory ==
    /\ pc = "inventory"
    /\ \E resp \in Allowed(faults) \cap {R200, R500} :
          /\ Answered({resp})
          /\ IF resp = R200
             THEN /\ calls' = Append(calls, PlainCall("list", "none"))
                  /\ existing' = list_workspace_items(remote)
                  /\ results' = ZeroResults
                  /\ repoKeys' = {}
                  /\ orderedItems' = OrderedItems(selective, tree, deployFolders, depGraph)
                  /\ idx' = 1
                  /\ pc' = "deploy"
                  /\ UNCHANGED exitCode
             ELSE /\ calls' = Append(calls, PlainCall("list", "HTTPError"))
                  /\ Exit("abort_listing", 1)
                  /\ UNCHANGED <<existing, results, repoKeys, orderedItems, idx>>
    /\ UNCHANGED <<cfgVars, svcVars, depGraph, deployFolders, outcomes, allWsItems, wsIdx,
                   lostWrite, runNo, prev, fnVars>>

\* the item of the deploy loop's current iteration
CurFolder == orderedItems[idx]
CurName == DisplayNameOf(CurFolder)
CurType == ItemTypeOf(CurFolder)
CurKey == KeyOf(CurName, CurType)

\* existing.get(lookup_key); 0 stands for None and for the empty id
ExistingId == IF CurKey \in DOMAIN existing THEN existing[CurKey] ELSE 0

\* the definition the workspace holds for an item id
StoredDefinition(id) ==
    IF \E w \in remote : w.id = id
    THEN (CHOOSE w \in remote : w.id = id).definition
    ELSE NoneDef

\* the type of the workspace item with an id
RemoteType(id) ==
    IF \E w \in remote : w.id = id
    THEN (CHOOSE w \in remote : w.id = id).type
    ELSE << >>

\* a tally that counts an errored item among the skipped ones as well
Tally_errorAlsoSkipped(counter, exc) ==
    /\ results' = [results EXCEPT ![counter] = @ + 1,
                                  !["skipped"] = @ + (IF counter = "errors" THEN 1 ELSE 0)]
    /\ outcomes' = Append(outcomes, [folder |-> CurFolder, counter |-> counter, exc |-> exc])

\* results[counter] += 1 for the current item; exc is what its remote call raised
Tally(counter, exc) ==
    /\ results' = [results EXCEPT ![counter] = @ + 1]
    /\ outcomes' = Append(outcomes, [folder |-> CurFolder, counter |-> counter, exc |-> exc])

\* lines 842-844, 874-879: the counter an exception raised by a remote call goes to
TallyOfException(exc) == IF exc = "UpdateFailed" THEN "errors" ELSE "errors"

\* the service creates the item when it carries the request out
ServiceCreate(resp, display_name, item_type, definition) ==
    IF Applied(resp)
    THEN /\ remote' = remote \cup {WsItem(nextId, display_name, item_type, definition)}
         /\ nextId' = nextId + 1
    ELSE UNCHANGED <<remote, nextId>>

\* the service overwrites the definition when it carries the request out
ServiceUpdate(resp, id, definition) ==
    /\ remote' = IF Applied(resp)
                 THEN {IF w.id = id THEN [w EXCEPT !.definition = definition] ELSE w :
                          w \in remote}
                 ELSE remote
    /\ UNCHANGED nextId

\* the service removes the item; a 404 says it was removed by someone else
ServiceDelete(resp, id) ==
    /\ remote' = IF Applied(resp) \/ resp.status = 404
                 THEN {w \in remote : w.id # id}
                 ELSE remote
    /\ UNCHANGED nextId

\* a loop that takes an errored item up again
NextItem_retryOnError ==
    /\ idx' = IF results'.errors > results.errors THEN idx ELSE idx + 1
    /\ pc' = "deploy"

NextItem == idx' = idx + 1 /\ pc' = "deploy"

deployFrame == <<cfgVars, depGraph, deployFolders, orderedItems, allWsItems, wsIdx,
                 lostWrite, exitCode, runNo, prev, fnVars>>

InDeployLoop == pc = "deploy" /\ idx <= Len(orderedItems)

\* lines 818-821: a type with no deployable definition
ProcessNoDeploy ==
    /\ InDeployLoop
    /\ CurType \in NO_DEPLOY_TYPES
    /\ Tally("skipped", "none")
    /\ NextItem
    /\ UNCHANGED <<svcVars, respVars, existing, repoKeys, calls>>
    /\ UNCHANGED deployFrame

\* a map that is left as the listing filled it
Recorded_dropped(index, lookup_key, new_id) == index

\* lines 840, 871: existing[lookup_key] = new_id
Recorded(index, lookup_key, new_id) == (lookup_key :> new_id) @@ index

\* lines 838-844 and 869-872: create, then record the new id; the id of the call
\* is the id create returned, 0 for the empty id of an answer without a body
CreateAndRecord(definition) ==
    \E resp \in Allowed(faults) :
       LET r == create_item(resp)
           new_id == IF r.exc = "none" /\ r.body THEN nextId ELSE 0
       IN  /\ calls' = Append(calls, Call("create", new_id, CurFolder, CurName, CurType,
                                          r.exc, "none"))
           /\ Answered({resp})
           /\ ServiceCreate(resp, CurName, CurType, definition)
           /\ IF r.exc = "none"
              THEN /\ existing' = Recorded(existing, CurKey, new_id)
                   /\ Tally("created", "none")
              ELSE /\ Tally(TallyOfException(r.exc), r.exc)
                   /\ UNCHANGED existing

\* lines 823-845: a metadata-only type is created when absent, else left as it is
ProcessMetadataOnly ==
    /\ InDeployLoop
    /\ CurType \notin NO_DEPLOY_TYPES
    /\ CurType \in METADATA_ONLY_TYPES
    /\ repoKeys' = repoKeys \cup {CurKey}
    /\ IF ExistingId # 0
       THEN /\ Tally("skipped", "none")
            /\ UNCHANGED <<svcVars, respVars, existing, calls>>
       ELSE CreateAndRecord(NoneDef)
    /\ NextItem
    /\ UNCHANGED deployFrame

\* a classification that takes every type that is not metadata-only for a full one
IsFullType_notMetadataOnly(t) == t \notin METADATA_ONLY_TYPES

\* lines 818, 831: the type went through neither of the two early branches
IsFullType(t) == t \notin NO_DEPLOY_TYPES /\ t \notin METADATA_ONLY_TYPES

\* lines 847-852: no deployable files in the folder
ProcessEmpty ==
    /\ InDeployLoop
    /\ IsFullType(CurType)
    /\ build_parts(CurFolder) = << >>
    /\ repoKeys' = repoKeys \cup {CurKey}
    /\ Tally("skipped", "none")
    /\ NextItem
    /\ UNCHANGED <<svcVars, respVars, existing, calls>>
    /\ UNCHANGED deployFrame

\* lines 854-866, 874-879: the item exists: compare, then update when it differs
ProcessExisting ==
    /\ InDeployLoop
    /\ IsFullType(CurType)
    /\ build_parts(CurFolder) # << >>
    /\ ExistingId # 0
    /\ repoKeys' = repoKeys \cup {CurKey}
    /\ \E r1 \in Allowed(faults) :
         LET parts == build_parts(CurFolder)
             g     == get_remote_definition(r1, StoredDefinition(ExistingId))
             c1    == [Call("getDefinition", ExistingId, CurFolder, CurName,
                            RemoteType(ExistingId), g.exc, g.swallowed)
                         EXCEPT !.absent = (g.exc = "none" /\ g.definition = NoneDef)]
         IN  IF g.exc # "none"
             THEN /\ calls' = Append(calls, c1)
                  /\ Answered({r1})
                  /\ Tally(TallyOfException(g.exc), g.exc)
                  /\ UNCHANGED svcVars
             ELSE IF definitions_match(parts, g.definition)
             THEN /\ calls' = Append(calls, c1)
                  /\ Answered({r1})
                  /\ Tally("skipped", "none")
                  /\ UNCHANGED svcVars
             ELSE \E r2 \in Allowed(faults + Cost(r1)) :
                    LET u  == update_item_definition(r2)
                        c2 == Call("update", ExistingId, CurFolder, CurName,
                                   RemoteType(ExistingId), u.exc, "none")
                    IN  /\ calls' = calls \o <<c1, c2>>
                        /\ faults' = faults + Cost(r1) + Cost(r2)
                        /\ misbehaved' = (misbehaved \/ ~WellBehaved(r1) \/ ~WellBehaved(r2))
                        /\ ServiceUpdate(r2, ExistingId, PartsDef(parts))
                        /\ IF u.exc = "none"
                           THEN Tally("deployed", "none")
                           ELSE Tally(TallyOfException(u.exc), u.exc)
    /\ NextItem
    /\ UNCHANGED existing
    /\ UNCHANGED deployFrame

\* lines 867-872, 877-879: the item is absent: create it with its definition
ProcessNew ==
    /\ InDeployLoop
    /\ IsFullType(CurType)
    /\ build_parts(CurFolder) # << >>
    /\ ExistingId = 0
    /\ repoKeys' = repoKeys \cup {CurKey}
    /\ CreateAndRecord(PartsDef(build_parts(CurFolder)))
    /\ NextItem
    /\ UNCHANGED deployFrame

\* a delete step that runs in either mode
RunsDeleteStep_always(sel) == TRUE

\* line 882: whether step 4 runs
RunsDeleteStep(sel) == ~sel

\* lines 881-883: a selective run skips the delete step
SkipDelete ==
    /\ pc = "deploy" /\ idx > Len(orderedItems)
    /\ ~RunsDeleteStep(selective)
    /\ pc' = "summary"
    /\ UNCHANGED <<cfgVars, svcVars, respVars, runVars, calls, lostWrite, exitCode, runNo,
                   prev, fnVars>>

\* lines 884-887: step 4 of a full run lists the workspace again
Relist ==
    /\ pc = "deploy" /\ idx > Len(orderedItems)
    /\ RunsDeleteStep(selective)
    /\ \E resp \in Allowed(faults) \cap {R200, R500} :
          /\ Answered({resp})
          /\ IF resp = R200
             THEN /\ calls' = Append(calls, PlainCall("list", "none"))
                  /\ allWsItems' = list_workspace_items_full(remote)
                  /\ wsIdx' = 1
                  /\ pc' = "deleting"
                  /\ UNCHANGED exitCode
             ELSE /\ calls' = Append(calls, PlainCall("list", "HTTPError"))
                  /\ Exit("abort_listing", 1)
                  /\ UNCHANGED <<allWsItems, wsIdx>>
    /\ UNCHANGED <<cfgVars, svcVars, depGraph, deployFolders, existing, repoKeys,
                   orderedItems, idx, results, outcomes, lostWrite, runNo, prev, fnVars>>

\* a delete step that looks at the key only
ShouldDelete_anyType(ws_item, repo_keys) == ItemKey(ws_item) \notin repo_keys

\* a delete step that finds nothing to delete
ShouldDelete_never(ws_item, repo_keys) == FALSE

\* a delete step that does not look at the keys of the repository
ShouldDelete_everyItem(ws_item, repo_keys) == ws_item.type \notin NO_DEPLOY_TYPES

\* lines 894-898: whether step 4 deletes a listed item
ShouldDelete(ws_item, repo_keys) ==
    /\ ws_item.type \notin NO_DEPLOY_TYPES
    /\ ItemKey(ws_item) \notin repo_keys

\* lines 900-906: the counter the outcome of delete_item goes to
DeleteTally(exc) == IF exc = "none" THEN "deleted" ELSE "errors"

\* lines 888-906: one iteration of the delete loop
DeleteStep ==
    /\ pc = "deleting" /\ wsIdx <= Len(allWsItems)
    /\ LET ws_item == allWsItems[wsIdx]
       IN  IF ShouldDelete(ws_item, repoKeys)
           THEN \E resp \in Allowed(faults) :
                  LET r == delete_item(resp)
                  IN  /\ calls' = Append(calls, Call("delete", ws_item.id, << >>,
                                                     ws_item.displayName, ws_item.type,
                                                     r.exc, "none"))
                      /\ Answered({resp})
                      /\ ServiceDelete(resp, ws_item.id)
                      /\ lostWrite' = (lostWrite \/
                                        (r.exc = "none" /\ ~Applied(resp) /\ resp.status # 404))
                      /\ results' = [results EXCEPT ![DeleteTally(r.exc)] = @ + 1]
           ELSE UNCHANGED <<calls, respVars, svcVars, results, lostWrite>>
    /\ wsIdx' = wsIdx + 1
    /\ UNCHANGED <<cfgVars, pc, depGraph, deployFolders, existing, repoKeys, orderedItems,
                   idx, outcomes, allWsItems, exitCode, runNo, prev, fnVars>>

EndDelete ==
    /\ pc = "deleting" /\ wsIdx > Len(allWsItems)
    /\ pc' = "summary"
    /\ UNCHANGED <<cfgVars, svcVars, respVars, runVars, calls, lostWrite, exitCode, runNo,
                   prev, fnVars>>

\* lines 914-916: the exit status for a tally
ExitStatus(tally) == IF tally.errors > 0 THEN 1 ELSE 0

\* lines 908-918: the summary and the exit status
Summary ==
    /\ pc = "summary"
    /\ Exit("done", ExitStatus(results))
    /\ UNCHANGED <<cfgVars, svcVars, respVars, runVars, calls, lostWrite, runNo, prev,
                   fnVars>>

\* the workflow is started again, on the same tree, configuration and workspace,
\* after a full deploy that ended with exit status 0
Rerun ==
    /\ pc = "done" /\ runNo = 1
    /\ ~selective /\ exitCode = 0
    /\ runNo' = 2
    /\ prev' = [results |-> results, exitCode |-> exitCode]
    /\ pc' = "start"
    /\ exitCode' = -1
    /\ depGraph' = << >>
    /\ deployFolders' = {}
    /\ existing' = << >>
    /\ repoKeys' = {}
    /\ orderedItems' = << >>
    /\ idx' = 1
    /\ results' = ZeroResults
    /\ outcomes' = << >>
    /\ allWsItems' = << >>
    /\ wsIdx' = 1
    /\ calls' = << >>
    /\ misbehaved' = FALSE
    /\ UNCHANGED <<cfgVars, svcVars, faults, lostWrite, fnVars>>

Next ==
    \/ CheckSource
    \/ ResolveDeploySet
    \/ Authenticate
    \/ ListInventory
    \/ ProcessNoDeploy
    \/ ProcessMetadataOnly
    \/ ProcessEmpty
    \/ ProcessExisting
    \/ ProcessNew
    \/ SkipDelete
    \/ Relist
    \/ DeleteStep
    \/ EndDelete
    \/ Summary
    \/ Rerun

Spec == Init /\ [][Next]_vars

----------------------------------------------------------------------------
(* topo_sort called on its own: every target set and every dependency graph   *)
(* over a small universe of folder names.  The graph has a key for some of    *)
(* the names and up to MaxDeps dependencies per key, cycles and dependencies  *)
(* outside the target set included.                                           *)

MaxDeps == 2    \* dependencies per key of the graph

N_a == <<"a">>
N_B == <<"B">>
N_ab == <<"a", "b">>
N_c == <<"c">>

\* the names that may be keys of the graph, and the names that may occur at all
TopoKeys == {N_a, N_B, N_ab}
TopoNodes == TopoKeys \cup {N_c}

DepSets == {d \in SUBSET TopoNodes : Cardinality(d) <= MaxDeps}

TopoGraphs == UNION {[keys -> DepSets] : keys \in SUBSET TopoKeys}

\* the orchestrator does not run while a function is called on its own
Idle ==
    /\ sourceExists = FALSE
    /\ tree = {}
    /\ deployItem = << >>
    /\ remote = {}
    /\ nextId = 6
    /\ depGraph = << >>
    /\ deployFolders = {}
    /\ existing = << >>
    /\ repoKeys = {}
    /\ orderedItems = << >>
    /\ idx = 1
    /\ results = ZeroResults
    /\ allWsItems = << >>
    /\ wsIdx = 1
    /\ calls = << >>
    /\ outcomes = << >>
    /\ lostWrite = FALSE
    /\ exitCode = -1
    /\ runNo = 1
    /\ faults = 0
    /\ misbehaved = FALSE
    /\ prev = [results |-> ZeroResults, exitCode |-> -1]

InitTopo ==
    /\ Idle
    /\ pc = "lib_call"
    /\ args \in [items : SUBSET TopoNodes, graph : TopoGraphs]
    /\ ret = << >>

\* result = topo_sort(items, graph)
CallTopoSort ==
    /\ pc = "lib_call"
    /\ ret' = topo_sort(args.items, args.graph)
    /\ pc' = "lib_return"
    /\ UNCHANGED <<cfgVars, svcVars, respVars, runVars, calls, lostWrite, exitCode,
                   runNo, prev, args>>

NextTopo == CallTopoSort

SpecTopo == InitTopo /\ [][NextTopo]_vars

----------------------------------------------------------------------------
(* Properties of main() *)

\* the remote calls of the current run with one of the operations ops
CallsWith(ops) == {calls[i] : i \in {j \in 1..Len(calls) : calls[j].op \in ops}}

\* the identity keys of the local tree's item directories
LocalKeys == {FolderKey(f) : f \in {g \in tree : RFindDot(g) # 0}}

\* C1: with A.Lakehouse and B.Notebook in the tree, B.Notebook naming A as its
\* default lakehouse, a selective deploy of B.Notebook has the edge
\* B.Notebook -> A.Lakehouse, works through [A.Lakehouse, B.Notebook] and issues
\* no delete call
C1_SelectiveScenario ==
    (/\ sourceExists
     /\ tree = {F_A_Lakehouse, F_B_Notebook}
     /\ deployItem = F_B_Notebook
     /\ pc \in {"deploy", "summary", "done"})
    => /\ GraphGet(depGraph, F_B_Notebook) = {F_A_Lakehouse}
       /\ orderedItems = <<F_A_Lakehouse, F_B_Notebook>>
       /\ CallsWith({"delete"}) = {}

\* C2: the items a full run issues a delete call for are exactly the listed
\* workspace items of a deployable type whose key is not a key of the local tree
C2_DeletionScope ==
    (~selective /\ pc \in {"summary", "done"})
    => {c.id : c \in CallsWith({"delete"})}
         = {w.id : w \in {x \in Range(allWsItems) :
                            /\ x.type \notin NO_DEPLOY_TYPES
                            /\ ItemKey(x) \notin LocalKeys}}

\* a full run that deleted one listed item and kept another, of a deployable type
C2_Witness ==
    /\ ~selective /\ pc = "done"
    /\ CallsWith({"delete"}) # {}
    /\ \E w \in Range(allWsItems) :
          /\ w.type \notin NO_DEPLOY_TYPES
          /\ w.id \notin {c.id : c \in CallsWith({"delete"})}

\* C3: a selective run never issues a delete call
C3_SelectiveNeverDeletes == selective => CallsWith({"delete"}) = {}

\* a selective run that ended with an error in its tally, on a workspace holding
\* an item a full run would delete
C3_Witness ==
    /\ selective /\ pc = "done"
    /\ results.errors > 0
    /\ \E w \in remote : w.type \notin NO_DEPLOY_TYPES /\ ItemKey(w) \notin LocalKeys

\* C4: after a full run that ended without errors, on a workspace that carried out
\* every request it answered with success, a second full run on the same tree
\* issues no create, update or delete call and tallies every item as skipped
C4_Idempotent ==
    (runNo = 2 /\ ~lostWrite /\ ~misbehaved)
    => /\ CallsWith({"create", "update", "delete"}) = {}
       /\ pc = "done" =>
            /\ results = [ZeroResults EXCEPT !.skipped = Len(orderedItems)]
            /\ exitCode = 0

\* a second run that ended, after a first run that created, updated and deleted
C4_Witness ==
    /\ runNo = 2 /\ pc = "done" /\ ~lostWrite /\ ~misbehaved
    /\ prev.results.created > 0
    /\ prev.results.deployed > 0
    /\ prev.results.deleted > 0
    /\ CallsWith({"getDefinition"}) # {}

\* C5: an item whose update raised UpdateFailed is tallied as skipped, not as an
\* error
C5_UpdateFailedIsSkip ==
    \A i \in 1..Len(outcomes) :
       outcomes[i].exc = "UpdateFailed" => outcomes[i].counter = "skipped"

\* C6: a fault of a remote call made for an item, or of the operation behind it,
\* puts the item into the error tally
C6_FaultIsTallied ==
    \A c \in CallsWith({"create", "getDefinition", "update"}) :
       (c.exc # "none" \/ c.swallowed # "none")
       => \A i \in 1..Len(outcomes) :
             outcomes[i].folder = c.folder => outcomes[i].counter = "errors"

\* C7: a run that got past authentication ends with a non-zero exit status if
\* and only if its error tally is not zero
C7_ExitIffErrors ==
    (pc \in {"done", "abort_listing"})
    => (exitCode # 0 <=> results.errors > 0)

\* no directory matches the requested item
NoMatch == \A f \in tree : Lower(f) # Lower(deployItem)

\* C8: with the source directory missing, or no directory matching the requested
\* item, the run makes no remote call and ends with exit status 1
C8_PreconditionAbort ==
    /\ (~sourceExists \/ (selective /\ NoMatch))
       => /\ calls = << >>
          /\ pc \in {"start", "resolve", "abort_precondition"}
          /\ pc = "abort_precondition" => exitCode = 1
    /\ pc = "abort_precondition"
       => (~sourceExists \/ (selective /\ NoMatch))

\* a selective run aborted for want of a match, the source directory and the
\* workspace both holding items
C8_Witness ==
    /\ pc = "abort_precondition"
    /\ sourceExists /\ tree # {} /\ remote # {}
    /\ selective

\* C9: no getDefinition, update or delete call is issued for a workspace item of
\* a metadata-only type
C9_MetadataOnlyUntouched ==
    \A c \in CallsWith({"getDefinition", "update", "delete"}) :
       c.type \notin METADATA_ONLY_TYPES

----------------------------------------------------------------------------
(* Properties of topo_sort *)

\* the dependencies, within items, of the names in S
DepsWithin(S, items, graph) == UNION {GraphGet(graph, x) \cap items : x \in S}

\* the names reached from S along dependencies within items
RECURSIVE ReachedFrom(_, _, _)
ReachedFrom(S, items, graph) ==
    LET more == S \cup DepsWithin(S, items, graph)
    IN  IF more = S THEN S ELSE ReachedFrom(more, items, graph)

\* no item of the target set depends on itself, directly or through others
AcyclicOn(items, graph) ==
    \A x \in items : x \notin ReachedFrom(DepsWithin({x}, items, graph), items, graph)

\* y comes before x in the sequence q
Before(q, y, x) == \E i, j \in 1..Len(q) : i < j /\ q[i] = y /\ q[j] = x

\* C10: for a graph that is acyclic on the target set, the result of topo_sort
\* has every dependency that is in the target set before the item depending on it
C10_DepsFirst ==
    (pc = "lib_return" /\ AcyclicOn(args.items, args.graph))
    => \A x \in args.items :
          \A y \in GraphGet(args.graph, x) \cap args.items : Before(ret, y, x)

\* a chain of three, the first name of which depends on the second and the second
\* on the third, with a dependency outside the target set
C10_Witness ==
    /\ pc = "lib_return"
    /\ AcyclicOn(args.items, args.graph)
    /\ args.items = TopoKeys
    /\ N_a \in GraphGet(args.graph, N_B)
    /\ N_ab \in GraphGet(args.graph, N_a)
    /\ N_c \in GraphGet(args.graph, N_a)
    /\ ret = <<N_ab, N_a, N_B>>

----------------------------------------------------------------------------
(* resolve_transitive called on its own: every start name and every graph of  *)
(* the universe above, cycles and shared dependencies included.               *)

InitResolve ==
    /\ Idle
    /\ pc = "lib_call"
    /\ args \in [start : TopoNodes, graph : TopoGraphs]
    /\ ret = << >>

\* result = resolve_transitive(graph, start)
CallResolveTransitive ==
    /\ pc = "lib_call"
    /\ ret' = resolve_transitive(args.graph, args.start)
    /\ pc' = "lib_return"
    /\ UNCHANGED <<cfgVars, svcVars, respVars, runVars, calls, lostWrite, exitCode,
                   runNo, prev, args>>

NextResolve == CallResolveTransitive

SpecResolve == InitResolve /\ [][NextResolve]_vars

\* some name of S depends on itself through one or more edges
OnCycle(S, graph) ==
    \E x \in S : x \in ReachedFrom(DepsWithin({x}, TopoNodes, graph), TopoNodes, graph)

\* C11: resolve_transitive returns the names reachable from start: start, its
\* direct dependencies, and with every name its dependencies, and nothing else
C11_ReachableSet ==
    pc = "lib_return"
    => /\ args.start \in ret
       /\ GraphGet(args.graph, args.start) \subseteq ret
       /\ \A x \in ret : GraphGet(args.graph, x) \subseteq ret
       /\ ret = ReachedFrom({args.start}, TopoNodes, args.graph)

\* a start name on a cycle, with a dependency shared by two names of the result
\* and a name reached only through another
C11_Witness ==
    /\ pc = "lib_return"
    /\ args.start = N_B
    /\ OnCycle({N_B}, args.graph)
    /\ GraphGet(args.graph, N_B) = {N_a, N_ab}
    /\ N_ab \in GraphGet(args.graph, N_a)
    /\ N_c \in GraphGet(args.graph, N_ab)
    /\ ret = TopoNodes

----------------------------------------------------------------------------
(* definitions_match called on its own.  The local parts are what build_parts *)
(* emits (sorted by path, base64, no .platform); the remote definition is     *)
(* absent or holds parts for some of the same paths, with or without a        *)
(* .platform part, one of them possibly as text.  An archive part holds a     *)
(* valid archive or bytes zipfile cannot open.                                *)

MaxParts == 3    \* parts of a definition

P_dacpac == <<"m", ".", "d", "a", "c", "p", "a", "c">>
P_NUPKG == <<"P", ".", "N", "U", "P", "K", "G">>

CmpPaths == {P_nb, P_dacpac, P_NUPKG}

M_model == <<"m", ".", "x", "m", "l">>
M_Origin == <<"O","r","i","g","i","n",".","x","m","l">>

\* a ZipInfo: filename, CRC, file_size
Member(filename, crc, file_size) ==
    [filename |-> filename, CRC |-> crc, file_size |-> file_size]

\* bytes that zipfile opens, with their entries in archive order
ZipBytes(n, members) == [raw |-> n, isZip |-> TRUE, members |-> members]

Z_base       == ZipBytes(10, <<Member(M_model, 1, 1), Member(M_Origin, 1, 1)>>)
Z_volatile   == ZipBytes(11, <<Member(M_model, 1, 1), Member(M_Origin, 2, 1)>>)
Z_crc        == ZipBytes(12, <<Member(M_model, 2, 1), Member(M_Origin, 1, 1)>>)
Z_reordered  == ZipBytes(13, <<Member(M_Origin, 1, 1), Member(M_model, 1, 1)>>)
Z_size       == ZipBytes(14, <<Member(M_model, 1, 2), Member(M_Origin, 1, 1)>>)
Z_onlyOrigin == ZipBytes(15, <<Member(M_Origin, 1, 1)>>)
U_one        == RawBytes(6)
U_two        == RawBytes(7)

\* the bytes a file at a path may hold
BytesFor(path) ==
    IF path = P_nb THEN {RawBytes(1), RawBytes(2)}
    ELSE IF path = P_dacpac
    THEN {Z_base, Z_volatile, Z_crc, Z_reordered, Z_size, Z_onlyOrigin, U_one, U_two}
    ELSE {Z_base, Z_volatile, U_one}

AllBytes == UNION {BytesFor(q) : q \in CmpPaths}

\* path -> bytes, for up to MaxParts paths
Contents ==
    UNION {{c \in [ps -> AllBytes] : \A q \in ps : c[q] \in BytesFor(q)} :
             ps \in {x \in SUBSET CmpPaths : Cardinality(x) <= MaxParts}}

\* a part as build_parts emits it
Base64Part(path, data) ==
    [path |-> path, payload |-> b64encode(data), payloadType |-> "InlineBase64"]

\* a part whose payload is text
TextPart(path, data) ==
    [path |-> path, payload |-> <<"utf8", data>>, payloadType |-> "InlineText"]

\* the parts of some contents, in path order
PartsOf(c) ==
    LET paths == Sorted(DOMAIN c)
    IN  [i \in 1..Len(paths) |-> Base64Part(paths[i], c[paths[i]])]

\* the definitions the service may return: nothing, or parts, the notebook file
\* as base64 or as text, a .platform part in front or not
RemoteDefinitions ==
    {NoneDef}
    \cup {PartsDef(PartsOf(c)) : c \in Contents}
    \cup {PartsDef(<<Base64Part(DotPlatform, RawBytes(0))>> \o PartsOf(c)) :
            c \in {x \in Contents : Cardinality(DOMAIN x) < MaxParts}}
    \cup {PartsDef([i \in 1..Len(PartsOf(c)) |->
                      IF PartsOf(c)[i].path = P_nb
                      THEN TextPart(P_nb, c[P_nb]) ELSE PartsOf(c)[i]]) :
            c \in {x \in Contents : P_nb \in DOMAIN x}}

InitCompare ==
    /\ Idle
    /\ pc = "lib_call"
    /\ args \in {[local_parts |-> PartsOf(c), remote_definition |-> d] :
                   c \in Contents, d \in RemoteDefinitions}
    /\ ret = << >>

\* result = definitions_match(parts, remote_def)
CallDefinitionsMatch ==
    /\ pc = "lib_call"
    /\ ret' = definitions_match(args.local_parts, args.remote_definition)
    /\ pc' = "lib_return"
    /\ UNCHANGED <<cfgVars, svcVars, respVars, runVars, calls, lostWrite, exitCode,
                   runNo, prev, args>>

NextCompare == CallDefinitionsMatch

SpecCompare == InitCompare /\ [][NextCompare]_vars

----------------------------------------------------------------------------
(* Properties of definitions_match *)

\* the local parts, and the remote parts other than .platform
CmpLocal == Range(args.local_parts)
CmpRemote ==
    IF args.remote_definition = NoneDef THEN {}
    ELSE {q \in Range(args.remote_definition.parts) : q.path # DotPlatform}

PathsIn(parts) == {q.path : q \in parts}

\* the bytes a payload stands for, under either payload type
DataAt(parts, path) == (CHOOSE q \in parts : q.path = path).payload[2]

\* the paths with an extension of the archive allow-list
ArchivePaths == {P_dacpac, P_NUPKG}

\* the definition is present, the path sets are equal, and every part that is
\* not an archive has the same bytes on both sides
PlainAgree ==
    /\ args.remote_definition # NoneDef
    /\ PathsIn(CmpLocal) = PathsIn(CmpRemote)
    /\ \A path \in PathsIn(CmpLocal) \ ArchivePaths :
          DataAt(CmpLocal, path) = DataAt(CmpRemote, path)

\* C12: without archive parts, definitions_match is true exactly when the remote
\* definition is present, the local paths are the remote paths other than
\* .platform, and the bytes are the same for every path; with archive parts it is
\* still false whenever one of these fails
C12_PlainCompare ==
    pc = "lib_return"
    => /\ ret => PlainAgree
       /\ (PlainAgree /\ PathsIn(CmpLocal) \cap ArchivePaths = {}) => ret

\* equal notebook bytes, the remote definition holding a .platform part as well
C12_Witness ==
    /\ pc = "lib_return"
    /\ ret = TRUE
    /\ PathsIn(CmpLocal) = {P_nb}
    /\ Len(args.remote_definition.parts) = 2
    /\ DataAt(CmpLocal, P_nb) = RawBytes(2)

\* how often an entry occurs in an archive
Occurrences(m, data) ==
    Cardinality({i \in 1..Len(data.members) : data.members[i] = m})

\* the two archives hold the same entries (name, checksum, size) as often, the
\* volatile ones left aside
SameMembers(a, b) ==
    \A m \in {x \in Range(a.members) \cup Range(b.members) :
                x.filename \notin {<<"D","a","c","M","e","t","a","d","a","t","a",".","x","m","l">>, M_Origin}} :
       Occurrences(m, a) = Occurrences(m, b)

\* C13: when all else agrees and every archive part is a valid archive on both
\* sides, definitions_match is true exactly when each pair of archives holds the
\* same non-volatile entries
C13_ArchiveCompare ==
    (/\ pc = "lib_return"
     /\ PlainAgree
     /\ \A path \in PathsIn(CmpLocal) \cap ArchivePaths :
           DataAt(CmpLocal, path).isZip /\ DataAt(CmpRemote, path).isZip)
    => (ret <=> \A path \in PathsIn(CmpLocal) \cap ArchivePaths :
                   SameMembers(DataAt(CmpLocal, path), DataAt(CmpRemote, path)))

\* two archives that differ in a volatile entry only compare equal, next to a
\* notebook file
C13_Witness ==
    /\ pc = "lib_return"
    /\ ret = TRUE
    /\ PathsIn(CmpLocal) = {P_nb, P_dacpac}
    /\ DataAt(CmpLocal, P_dacpac) = Z_base
    /\ DataAt(CmpRemote, P_dacpac) = Z_volatile

\* C14: an archive part that zipfile cannot open, on either side, makes
\* definitions_match false
C14_UnparseableDiffers ==
    (/\ pc = "lib_return"
     /\ \E path \in PathsIn(CmpLocal) \cap PathsIn(CmpRemote) \cap ArchivePaths :
           ~DataAt(CmpLocal, path).isZip \/ ~DataAt(CmpRemote, path).isZip)
    => ret = FALSE

----------------------------------------------------------------------------
(* poll_lro step by step: one action per iteration of its loop.  args holds   *)
(* the operation: what its status endpoint answers to the successive polls    *)
(* (running once the answers are used up), whether the result request returns *)
(* a body, and the message of the error it reports, if it reports one.  ret   *)
(* holds the locals of poll_lro and what it has done so far.                  *)

MaxStatuses == 3    \* answers of the status endpoint before it repeats "running"

WireStatuses == {"NotStarted", "Running", "Succeeded", "Failed", "Cancelled", "http_error"}

\* the sequences over S of length up to n
SeqsUpTo(S, n) == UNION {[1..k -> S] : k \in 0..n}

NoMessage == "<absent>"
Messages == {"quota exceeded", NoMessage}

Operations ==
    {[resp |-> Response(202, TRUE, lro, has_body), message |-> msg] :
        lro \in SeqsUpTo(WireStatuses, MaxStatuses),
        has_body \in BOOLEAN,
        msg \in Messages}

\* err.get('message', 'unknown error')
ErrorMessage(op) == IF op.message = NoMessage THEN "unknown error" ELSE op.message

InitLro ==
    /\ Idle
    /\ pc = "lro_poll"
    /\ args \in Operations
    /\ ret = [attempt |-> 1, polls |-> 0, fetches |-> 0, exc |-> "none",
              status |-> "", message |-> "", body |-> FALSE]

lroFrame == <<cfgVars, svcVars, respVars, runVars, calls, lostWrite, exitCode, runNo,
              prev, args>>

\* lines 149-166: one iteration of the loop
LroPoll ==
    /\ pc = "lro_poll"
    /\ ret.attempt <= POLL_MAX
    /\ LET status == StatusAt(args.resp, ret.attempt)
           polled == [ret EXCEPT !.polls = @ + 1, !.status = status]
       IN  IF status = "http_error"
           THEN /\ ret' = [polled EXCEPT !.exc = "HTTPError"]
                /\ pc' = "lro_raise"
           ELSE IF status = "succeeded"
           THEN /\ ret' = [polled EXCEPT !.fetches = @ + 1, !.body = args.resp.hasBody]
                /\ pc' = "lro_return"
           ELSE IF IsFailure(status)
           THEN /\ ret' = [polled EXCEPT !.exc = "RuntimeError",
                                         !.message = ErrorMessage(args)]
                /\ pc' = "lro_raise"
           ELSE /\ ret' = [polled EXCEPT !.attempt = @ + 1]
                /\ pc' = "lro_poll"
    /\ UNCHANGED lroFrame

\* line 168: the loop is used up
LroTimeout ==
    /\ pc = "lro_poll"
    /\ ret.attempt > POLL_MAX
    /\ ret' = [ret EXCEPT !.exc = TimeoutFault]
    /\ pc' = "lro_raise"
    /\ UNCHANGED lroFrame

NextLro == LroPoll \/ LroTimeout

\* the loop is not interrupted: time.sleep returns and every request is answered
SpecLro == InitLro /\ [][NextLro]_vars /\ WF_vars(NextLro)

----------------------------------------------------------------------------
(* Properties of poll_lro *)

\* what the status endpoint answers, as the service spells it
Answers == args.resp.lro

\* the first poll answered with something other than a non-terminal status;
\* 0 when every answer is non-terminal
FirstEnd ==
    LET ends == {i \in 1..Len(Answers) : Answers[i] \notin {"NotStarted", "Running"}}
    IN  IF ends = {} THEN 0 ELSE CHOOSE i \in ends : \A j \in ends : i <= j

LroDone == pc \in {"lro_return", "lro_raise"}

\* C15: an operation that reports succeeded at its k-th poll makes poll_lro return
\* the result body after k status polls and one result request; one that reports
\* failed or cancelled makes it raise RuntimeError with the reported message,
\* without a result request; in either case no poll follows
C15_LroResolution ==
    LroDone
    => /\ (FirstEnd # 0 /\ Answers[FirstEnd] = "Succeeded")
          => /\ pc = "lro_return"
             /\ ret.exc = "none"
             /\ ret.polls = FirstEnd
             /\ ret.fetches = 1
             /\ ret.body = args.resp.hasBody
       /\ (FirstEnd # 0 /\ Answers[FirstEnd] \in {"Failed", "Cancelled"})
          => /\ pc = "lro_raise"
             /\ ret.exc = "RuntimeError"
             /\ ret.message = (IF args.message = NoMessage THEN "unknown error"
                               ELSE args.message)
             /\ ret.polls = FirstEnd
             /\ ret.fetches = 0
       /\ ~ENABLED NextLro

\* running, running, succeeded: the body is returned after three polls and one
\* result request
C15_Witness ==
    /\ pc = "lro_return"
    /\ Answers = <<"Running", "Running", "Succeeded">>
    /\ args.resp.hasBody
    /\ ret.polls = 3 /\ ret.fetches = 1 /\ ret.body

\* never more than POLL_MAX polls; a result is returned only for an operation
\* that reported succeeded; with POLL_MAX non-terminal answers the fault is
\* TimeoutError, which is raised in no other case
C16_Bounded ==
    /\ ret.polls <= POLL_MAX
    /\ pc = "lro_poll" => ret.polls = ret.attempt - 1
    /\ pc = "lro_return" => (FirstEnd # 0 /\ Answers[FirstEnd] = "Succeeded")
    /\ (LroDone /\ FirstEnd = 0)
       => /\ pc = "lro_raise"
          /\ ret.exc = "TimeoutError"
          /\ ret.polls = POLL_MAX
          /\ ret.fetches = 0
    /\ (LroDone /\ FirstEnd # 0) => ret.exc \in {"none", "RuntimeError", "HTTPError"}

\* C16: poll_lro terminates, after at most POLL_MAX polls, and when no poll
\* reports a terminal status it raises TimeoutError, a fault other than the
\* RuntimeError of a failed or cancelled operation
C16_PollTerminates == []C16_Bounded /\ <>LroDone

\* the timeout, for an operation that never leaves the non-terminal statuses
C16_Witness ==
    /\ pc = "lro_raise"
    /\ ret.exc = "TimeoutError"
    /\ ret.polls = POLL_MAX
    /\ Answers = <<"NotStarted", "Running", "Running">>

----------------------------------------------------------------------------
(* The client functions called on their own: each of getDefinition, create,   *)
(* update and delete on every response of the orchestrator's runs and on      *)
(* every accepted operation of the poll loop above.                           *)

ClientOps == {"getDefinition", "create", "update", "delete"}

ClientResponses == Responses \cup {op.resp : op \in Operations}

InitClient ==
    /\ Idle
    /\ pc = "lib_call"
    /\ args \in [op : ClientOps, resp : ClientResponses,
                 stored : {PartsDef(build_parts(F_B_Notebook))}]
    /\ ret = << >>

\* ret = the outcome of the client function on the response
ClientReturns(op, outcome) ==
    /\ pc = "lib_call"
    /\ args.op = op
    /\ ret' = outcome
    /\ pc' = "lib_return"
    /\ UNCHANGED <<cfgVars, svcVars, respVars, runVars, calls, lostWrite, exitCode,
                   runNo, prev, args>>

CallGetRemoteDefinition ==
    ClientReturns("getDefinition", get_remote_definition(args.resp, args.stored))

CallCreateItem == ClientReturns("create", create_item(args.resp))

CallUpdateItemDefinition == ClientReturns("update", update_item_definition(args.resp))

\* delete_item as step 4 calls it, with the counter its outcome goes to
CallDeleteItem ==
    LET r == delete_item(args.resp)
    IN  ClientReturns("delete", [exc |-> r.exc, polls |-> r.polls, body |-> r.body,
                                 tally |-> DeleteTally(r.exc)])

NextClient ==
    \/ CallGetRemoteDefinition
    \/ CallCreateItem
    \/ CallUpdateItemDefinition
    \/ CallDeleteItem

SpecClient == InitClient /\ [][NextClient]_vars

\* C17: a client function that was answered 202 with an operation id and returns
\* without raising has polled the operation up to a terminal status
C17_PolledToTerminal ==
    (/\ pc = "lib_return"
     /\ args.resp.status = 202 /\ args.resp.opId
     /\ ret.exc = "none")
    => /\ ret.polls \in 1..Len(args.resp.lro)
       /\ args.resp.lro[ret.polls]
            \in {"succeeded", "failed", "cancelled", "Succeeded", "Failed", "Cancelled"}

----------------------------------------------------------------------------
(* Further properties of main() *)

\* C18: an item for which a long-running operation failed, was cancelled or
\* timed out is in the error tally, the operation behind getDefinition included
C18_LroFaultIsTallied ==
    \A c \in CallsWith({"create", "getDefinition", "update"}) :
       (\/ c.exc \in {"RuntimeError", "TimeoutError"}
        \/ c.swallowed \in {"RuntimeError", "TimeoutError"})
       => \E i \in 1..Len(outcomes) :
             outcomes[i].folder = c.folder /\ outcomes[i].counter = "errors"

\* the local item directories of a deployable type
ValidLocal == {f \in tree : RFindDot(f) # 0 /\ ItemTypeOf(f) \notin NO_DEPLOY_TYPES}

\* the keys of the workspace items of a deployable type
RemoteDeployableKeys == {ItemKey(w) : w \in {x \in remote : x.type \notin NO_DEPLOY_TYPES}}

\* a full run has ended with no error, on a workspace that carried out every
\* request it answered with success
MirrorRun == pc = "done" /\ ~selective /\ results.errors = 0 /\ ~lostWrite

\* the folder holds a file other than .platform
HasDeployableFiles(f) == \E file \in Files(f) : file.path # DotPlatform

Dotless(f) == "." \notin Range(f)

\* C20: the name and the type sent for a folder are what precedes and what
\* follows its last dot; a directory without a dot is in no work order and in no
\* dependency graph, no call is made and nothing is tallied for it, and a
\* selective run that asks for it writes nothing
C20_LastDotSplit ==
    /\ \A c \in CallsWith({"create", "getDefinition", "update"}) :
          /\ c.folder \in tree
          /\ c.folder = c.displayName \o <<".">> \o ItemTypeOf(c.folder)
          /\ Dotless(ItemTypeOf(c.folder))
          /\ c.op = "create" => c.type = ItemTypeOf(c.folder)
    /\ \A i \in 1..Len(orderedItems) : ~Dotless(orderedItems[i])
    /\ \A i \in 1..Len(outcomes) : ~Dotless(outcomes[i].folder)
    /\ \A f \in DOMAIN depGraph : ~Dotless(f) /\ \A g \in depGraph[f] : ~Dotless(g)
    /\ (selective /\ Dotless(deployItem)) => CallsWith({"create", "update", "delete"}) = {}

\* a full run over a directory without a dot and a folder with two dots, for
\* which it created the item d.v of type Notebook
C20_Witness ==
    /\ pc = "done"
    /\ tree = {F_nodot, F_dv_Notebook}
    /\ \E c \in CallsWith({"create"}) :
          c.displayName = <<"d", ".", "v">> /\ c.type = T_Notebook

\* the items of the work order the deploy loop is done with
Processed == 1..(IF idx - 1 < Len(orderedItems) THEN idx - 1 ELSE Len(orderedItems))

\* the workspace items of a type without a definition
RemoteNoDefinition(ws) == {w \in ws : w.type \in NO_DEPLOY_TYPES}

\* what holds of the tally and of the calls in every state of a run
C21_Recorded ==
    /\ \A i \in Processed :
          ItemTypeOf(orderedItems[i]) \in NO_DEPLOY_TYPES
          => /\ i <= Len(outcomes)
             /\ outcomes[i] = [folder |-> orderedItems[i], counter |-> "skipped",
                               exc |-> "none"]
    /\ \A i \in 1..Len(calls) :
          /\ ItemTypeOf(calls[i].folder) \notin NO_DEPLOY_TYPES
          /\ calls[i].op \in {"create", "update", "delete"}
             => calls[i].type \notin NO_DEPLOY_TYPES

AbsentAt == {i \in 1..Len(calls) : calls[i].op = "getDefinition" /\ calls[i].absent}

\* C22: when get_remote_definition returns None for an existing item with parts
\* (a 400 or 404, a 202 without an operation id, an operation that yields no
\* definition, any other status), the next call is the update of that item, and
\* the item is tallied as deployed or as an error of the update, never as skipped
C22_AbsentForcesUpdate ==
    \A i \in AbsentAt :
       /\ IsFullType(ItemTypeOf(calls[i].folder))
       /\ build_parts(calls[i].folder) # << >>
       /\ i < Len(calls)
       /\ calls[i + 1].op = "update"
       /\ calls[i + 1].id = calls[i].id
       /\ calls[i + 1].folder = calls[i].folder
       /\ \A k \in 1..Len(outcomes) :
             outcomes[k].folder = calls[i].folder
             => /\ outcomes[k].counter \in {"deployed", "errors"}
                /\ outcomes[k].exc = calls[i + 1].exc

\* a run in which the definition of an existing notebook was not available, with
\* no operation behind the request, and the notebook was updated
C22_Witness ==
    /\ pc = "done"
    /\ results.deployed > 0
    /\ \E i \in AbsentAt :
          /\ calls[i].swallowed = "none"
          /\ calls[i].folder = F_B_Notebook
          /\ calls[i + 1].exc = "none"

----------------------------------------------------------------------------
(* build_dependency_graph called on its own, on every tree of up to           *)
(* MaxGraphFolders directories of a catalog with notebooks, semantic models,  *)
(* reports, lakehouses and environments, types in either case.                *)

MaxGraphFolders == 4    \* directories under the source root

GraphCatalog ==
    {F_A_Lakehouse, F_a_lakehouse, F_L_Lakehouse, F_E_Environment, F_v_environment,
     F_B_Notebook, F_dv_Notebook, F_n_notebook, F_M_SemanticModel, F_p_semanticmodel,
     F_R_Report, F_r_report, F_D_Dashboard, F_nodot}

GraphTrees ==
    {t \in SUBSET GraphCatalog :
        /\ Cardinality(t) <= MaxGraphFolders
        /\ \A f, g \in t : Lower(f) = Lower(g) => f = g}

InitGraph ==
    /\ Idle
    /\ pc = "lib_call"
    /\ args \in [source : GraphTrees]
    /\ ret = << >>

\* graph = build_dependency_graph(source)
CallBuildDependencyGraph ==
    /\ pc = "lib_call"
    /\ ret' = build_dependency_graph(args.source)
    /\ pc' = "lib_return"
    /\ UNCHANGED <<cfgVars, svcVars, respVars, runVars, calls, lostWrite, exitCode,
                   runNo, prev, args>>

NextGraph == CallBuildDependencyGraph

SpecGraph == InitGraph /\ [][NextGraph]_vars

----------------------------------------------------------------------------
(* Properties of build_dependency_graph *)

\* the item directories of the tree, and those of a type, whatever its case
GraphItems == {f \in args.source : "." \in Range(f)}
ItemsOfType(t) == {f \in GraphItems : Lower(ItemTypeOf(f)) = Lower(t)}

\* the edges of an item to the items of a type
EdgesTo(f, t) == ret[f] \cap ItemsOfType(t)

\* some META block of the notebook has the key "environment" under dependencies
NamesEnvironment(f) == \E i \in 1..Len(Metas(f)) : Metas(f)[i].env # "absent"

\* C23: a notebook with the key "environment" under the dependencies of a META
\* block has an edge to every Environment item of the tree, whatever is under
\* the key; a notebook without the key has no edge to an Environment item
C23_EnvironmentEdges ==
    pc = "lib_return"
    => /\ DOMAIN ret = GraphItems
       /\ \A f \in ItemsOfType(T_Notebook) :
             EdgesTo(f, T_Environment) =
                (IF NamesEnvironment(f) THEN ItemsOfType(T_Environment) ELSE {})

\* a notebook whose key holds null, with two environments, and a notebook
\* without the key
C23_Witness ==
    /\ pc = "lib_return"
    /\ args.source = {F_n_notebook, F_B_Notebook, F_E_Environment, F_v_environment}
    /\ ret[F_n_notebook] = {F_E_Environment, F_v_environment}
    /\ ret[F_B_Notebook] = {}

\* C24: a semantic model with "Sql.Database" in a *.tmdl file has an edge to every
\* Lakehouse item of the tree and to nothing else; one without it has no
\* dependencies
C24_LakehouseEdges ==
    pc = "lib_return"
    => \A f \in ItemsOfType(T_SemanticModel) :
          ret[f] = (IF \E content \in TmdlContents(f) : Contains(content, S_SqlDatabase)
                    THEN ItemsOfType(T_Lakehouse) ELSE {})

\* a semantic model with the call and one without it, with two lakehouses
C24_Witness ==
    /\ pc = "lib_return"
    /\ args.source = {F_M_SemanticModel, F_p_semanticmodel, F_a_lakehouse, F_L_Lakehouse}
    /\ ret[F_p_semanticmodel] = {F_a_lakehouse, F_L_Lakehouse}
    /\ ret[F_M_SemanticModel] = {}

\* C25: a report whose *.pbir file names the dataset N has an edge to the
\* semantic model folder with the display name N, when the tree holds one
C25_DatasetEdge ==
    pc = "lib_return"
    => \A f \in ItemsOfType(T_Report) :
          \A i \in 1..Len(PbirDatasetNames(f)) :
             \A g \in ItemsOfType(T_SemanticModel) :
                DisplayNameOf(g) = PbirDatasetNames(f)[i] => g \in ret[f]

----------------------------------------------------------------------------
(* Properties of delete_item *)

\* C26: delete_item returns for a 404 answer, which step 4 tallies as deleted and
\* not as an error; it returns for an answer below 400 and raises RuntimeError for
\* every other answer
C26_DeleteIdempotent ==
    (pc = "lib_return" /\ args.op = "delete" /\ args.resp.status # 0)
    => /\ args.resp.status = 404 => (ret.exc = "none" /\ ret.tally = "deleted")
       /\ args.resp.status < 400 => (ret.exc = "none" /\ ret.tally = "deleted")
       /\ (args.resp.status >= 400 /\ args.resp.status # 404)
          => (ret.exc = "RuntimeError" /\ ret.tally = "errors")

\* a delete answered with not found
C26_Witness ==
    /\ pc = "lib_return" /\ args.op = "delete"
    /\ args.resp = R404
    /\ ret.exc = "none" /\ ret.tally = "deleted"

----------------------------------------------------------------------------
(* Properties of main(): matching, the inventory map and the work set *)

\* the folder's key is the key of an item the workspace held before the run
\* created anything, found by the listing under a name or type that may differ
\* in case
MatchedId(f) ==
    IF FolderKey(f) \in DOMAIN existing
       /\ \E w \in RemoteCatalog : w.id = existing[FolderKey(f)]
    THEN existing[FolderKey(f)]
    ELSE 0

\* t is a metadata-only type, in whatever case it is written
MetadataOnlyType(t) == Lower(t) \in {Lower(x) : x \in METADATA_ONLY_TYPES}

\* the matching of the claim without what it says of metadata-only types: no
\* create call for a matched folder, no delete call for the item it matches, and
\* a getDefinition call on that item when the folder is of a full type with parts
C27_MatchedNotCreated ==
    \A i \in Processed :
       LET f == orderedItems[i]
       IN  (ItemTypeOf(f) \notin NO_DEPLOY_TYPES /\ MatchedId(f) # 0)
           => /\ \A c \in CallsWith({"create"}) : c.folder # f
              /\ \A c \in CallsWith({"delete"}) : c.id # MatchedId(f)
              /\ (~MetadataOnlyType(ItemTypeOf(f)) /\ build_parts(f) # << >>)
                 => \E c \in CallsWith({"getDefinition"}) :
                       c.folder = f /\ c.id = MatchedId(f)

\* C27: a local item whose key is that of a workspace item, whatever the case of
\* name and type, causes no create call and the item is not deleted; it is
\* compared when of a full type, and no call is made for it when its type is
\* metadata-only
C27_CaseInsensitiveMatch ==
    /\ C27_MatchedNotCreated
    /\ \A i \in Processed :
          LET f == orderedItems[i]
          IN  (MetadataOnlyType(ItemTypeOf(f)) /\ MatchedId(f) # 0)
              => \A k \in 1..Len(calls) : calls[k].folder # f

\* the create calls of the run that returned
Created == {c \in CallsWith({"create"}) : c.exc = "none"}

\* the map holds, under the key of every created item, the id create returned,
\* and that id, unless empty, is the id of the workspace item with the key
C28_Holds ==
    \A c \in Created :
       /\ FolderKey(c.folder) \in DOMAIN existing
       /\ existing[FolderKey(c.folder)] = c.id
       /\ c.id # 0 => \E w \in remote : w.id = c.id /\ ItemKey(w) = FolderKey(c.folder)

\* between the listing and the end of the run the map is written only in the step
\* of a create that returned, under the key of the item created
C28_OnlyCreateWrites ==
    (pc \notin {"inventory", "done"} /\ existing' # existing)
    => /\ pc = "deploy" /\ pc' = "deploy" /\ idx' = idx + 1
       /\ Len(calls') = Len(calls) + 1
       /\ LET c == calls'[Len(calls')]
          IN  /\ c.op = "create" /\ c.exc = "none"
              /\ c.folder = orderedItems[idx]
              /\ existing' = (FolderKey(c.folder) :> c.id) @@ existing

\* C28: in the step of every create that returns, with or without a definition,
\* the inventory map takes the returned id under the item's key, before the next
\* item is looked at, and no other step after the listing changes the map
C28_InventoryMap == []C28_Holds /\ [][C28_OnlyCreateWrites]_vars

\* a run that created a lakehouse without a definition and a notebook with one
C28_Witness ==
    /\ pc = "done"
    /\ \E c, d \in Created :
          /\ c.id # 0 /\ d.id # 0
          /\ c.type \in METADATA_ONLY_TYPES
          /\ IsFullType(d.type)

\* the item directories of the tree
TreeItems == {f \in tree : RFindDot(f) # 0}

\* the items reached from the requested directory along the edges of the
\* dependency graph of step 0
Closure ==
    ReachedFrom({find_item_folder(tree, deployItem)}, TreeItems, depGraph)
    \cap TreeItems

\* what holds of the work order once the loop has started
C29_WorkSet ==
    /\ Range(orderedItems) = Closure
    /\ Len(orderedItems) = Cardinality(Closure)
    /\ \A i \in 1..Len(calls) :
          calls[i].folder # << >> => calls[i].folder \in Closure
    /\ \A i \in 1..Len(outcomes) : outcomes[i].folder = orderedItems[i]
    /\ pc \in {"summary", "done"} => Len(outcomes) = Len(orderedItems)

\* C29: in a selective run the graph of step 0 is the dependency graph of the
\* tree and the work order holds the items of the closure of the requested item,
\* each once; every call made for a folder is made for one of them, and a run
\* that reaches its end has tallied each of them once
C29_SelectiveWorkSet ==
    (selective /\ pc \in {"auth", "deploy", "summary", "done"})
    => /\ pc = "auth" => depGraph = build_dependency_graph(tree)
       /\ pc # "auth" => C29_WorkSet

\* a selective run for a report, whose semantic model reads from a lakehouse:
\* the lakehouse was created first
C29_Witness ==
    /\ selective /\ pc = "done"
    /\ tree = ChainTree
    /\ orderedItems = <<F_L_Lakehouse, F_p_semanticmodel, F_r_report>>
    /\ results.created > 0

\* the folder is of a full type and holds no file besides the excluded ones
EmptyFull(f) ==
    /\ IsFullType(ItemTypeOf(f))
    /\ \A file \in Files(f) : PathName(file.path) \in EXCLUDED_FILES

\* C30: a full-type item without deployable files is tallied as skipped and no
\* call is made for it, whether the workspace holds an item with its key or not
C30_EmptySkipped ==
    \A i \in Processed :
       EmptyFull(orderedItems[i])
       => /\ i <= Len(outcomes)
          /\ outcomes[i] = [folder |-> orderedItems[i], counter |-> "skipped",
                            exc |-> "none"]
          /\ \A k \in 1..Len(calls) : calls[k].folder # orderedItems[i]

\* a run over a report folder holding .platform only, the workspace holding a
\* report of that name, which the run left in place
C30_Witness ==
    /\ pc = "done"
    /\ F_R_Report \in tree
    /\ FolderKey(F_R_Report) \in DOMAIN existing
    /\ \E i \in 1..Len(outcomes) :
          outcomes[i].folder = F_R_Report /\ outcomes[i].counter = "skipped"
    /\ \E w \in remote : ItemKey(w) = FolderKey(F_R_Report)

----------------------------------------------------------------------------
(* Further properties of topo_sort *)

\* neither name is reached from the other along the edges of the graph
Unrelated(x, y, graph) ==
    /\ x # y
    /\ y \notin ReachedFrom({x}, TopoNodes, graph)
    /\ x \notin ReachedFrom({y}, TopoNodes, graph)

\* the tie rule as stated: any two items of the target set without a graph
\* relationship come in the order of their names
C34_TiesAsStated ==
    pc = "lib_return"
    => \A x, y \in args.items :
          (Unrelated(x, y, args.graph) /\ StrLess(x, y)) => Before(ret, x, y)

\* C34: two items without a graph relationship come in the order of their names,
\* unless the one with the later name is reached, within the target set, from an
\* item whose name comes before the earlier one: it is then emitted with that item
C34_Ties ==
    pc = "lib_return"
    => \A x, y \in args.items :
          (Unrelated(x, y, args.graph) /\ StrLess(x, y) /\ ~Before(ret, x, y))
          => \E z \in args.items :
                /\ StrLess(z, x)
                /\ y \in ReachedFrom({z}, args.items, args.graph)

\* B depends on ab; a and ab are unrelated and ab comes first, with B; a and c
\* are unrelated and in the order of their names
C34_Witness ==
    /\ pc = "lib_return"
    /\ args.items = TopoNodes
    /\ GraphGet(args.graph, N_B) = {N_ab}
    /\ GraphGet(args.graph, N_a) = {}
    /\ GraphGet(args.graph, N_ab) = {}
    /\ ret = <<N_ab, N_B, N_a, N_c>>

\* C39: for every target set and every graph, cycles within the target set and
\* edges leaving it included, topo_sort returns a list that holds each item of
\* the target set once and nothing else
C39_Permutation ==
    pc = "lib_return"
    => /\ Range(ret) = args.items
       /\ Len(ret) = Cardinality(args.items)

\* a cycle of three within the target set, an edge leaving it, and an item that
\* is no key of the graph
C39_Witness ==
    /\ pc = "lib_return"
    /\ args.items = {N_a, N_B, N_ab}
    /\ DOMAIN args.graph = {N_a, N_B}
    /\ args.graph[N_a] = {N_B, N_c}
    /\ args.graph[N_B] = {N_a, N_ab}
    /\ Len(ret) = 3

----------------------------------------------------------------------------
(* Further properties of the client functions *)

\* C40: a 202 that names no operation makes create and update raise without a
\* status poll, and makes get_remote_definition return None without a status poll
C40_NoOperationId ==
    (/\ pc = "lib_return"
     /\ args.resp.status = 202 /\ ~args.resp.opId)
    => /\ ret.polls = 0
       /\ args.op \in {"create", "update"} => ret.exc = "RuntimeError"
       /\ args.op = "getDefinition"
          => /\ ret.exc = "none"
             /\ ret.swallowed = "none"
             /\ ret.definition = NoneDef

\* the operation behind the answer would have succeeded at its first poll
C40_Witness ==
    /\ pc = "lib_return"
    /\ args.op = "update"
    /\ args.resp = R202noop
    /\ ret.exc = "RuntimeError"
    /\ ret.polls = 0

----------------------------------------------------------------------------
(* build_dependency_graph on every tree of up to MaxGraphFolders directories  *)
(* of the catalog, directory names that differ in letter case only included   *)
(* (a case-sensitive file system holds both A.Lakehouse and a.lakehouse).     *)

GraphTreesAny == {t \in SUBSET GraphCatalog : Cardinality(t) <= MaxGraphFolders}

InitGraphAny ==
    /\ Idle
    /\ pc = "lib_call"
    /\ args \in [source : GraphTreesAny]
    /\ ret = << >>

SpecGraphAny == InitGraphAny /\ [][NextGraph]_vars

C38_EdgesAreFolders ==
    pc = "lib_return"
    => \A f \in DOMAIN ret :
          /\ ret[f] \subseteq GraphItems
          /\ resolve_transitive(ret, f) \subseteq GraphItems

\* the lakehouse A.Lakehouse is no key of the graph and the semantic model
\* has an edge to it
C38_Shadowed ==
    /\ pc = "lib_return"
    /\ args.source = {F_A_Lakehouse, F_a_lakehouse, F_p_semanticmodel}
    /\ DOMAIN ret = {F_a_lakehouse, F_p_semanticmodel}
    /\ ret[F_p_semanticmodel] = {F_A_Lakehouse, F_a_lakehouse}

----------------------------------------------------------------------------
(* build_parts called on its own, on every walk of an item folder of up to    *)
(* MaxFiles files, nested ones and .platform files at two depths included,    *)
(* and definitions_match then called on its parts and a remote definition     *)
(* that holds the parts of such a folder, the .platform ones as well.         *)

MaxFiles == 3    \* files under the item folder

PF_a_b        == <<"a", "/", "b">>
PF_adotb      == <<"a", ".", "b">>
PF_B          == <<"B">>
PF_a_platform == <<"a", "/">> \o DotPlatform

File(path, data) == [path |-> path, data |-> data]

FileCatalog ==
    {File(PF_a_b, RawBytes(1)), File(PF_adotb, RawBytes(1)),
     File(PF_B, RawBytes(1)), File(PF_B, RawBytes(2)),
     File(DotPlatform, RawBytes(1)),
     File(PF_a_platform, RawBytes(1)), File(PF_a_platform, RawBytes(2))}

\* the folders: up to MaxFiles files, one file per path
FileSets ==
    {fs \in SUBSET FileCatalog :
        /\ Cardinality(fs) <= MaxFiles
        /\ \A f, g \in fs : f.path = g.path => f = g}

\* the orders in which a walk may yield the files
Walks(fs) == {q \in [1..Cardinality(fs) -> fs] : Range(q) = fs}

\* a remote definition with the parts of every file of a folder
RemoteOf(fs) == PartsDef([i \in 1..Len(rglob(fs)) |-> EncodePart(rglob(fs)[i])])

InitParts ==
    /\ Idle
    /\ pc = "lib_call"
    /\ args \in [files : FileSets, remote_definition : {RemoteOf(fs) : fs \in FileSets}]
    /\ ret = << >>

\* parts = build_parts(item_dir)
CallBuildParts ==
    /\ pc = "lib_call"
    /\ \E walk \in Walks(args.files) : ret' = [parts |-> BuildPartsOf(walk)]
    /\ pc' = "lib_parts"
    /\ UNCHANGED <<cfgVars, svcVars, respVars, runVars, calls, lostWrite, exitCode,
                   runNo, prev, args>>

\* definitions_match(parts, remote_def)
CallDefinitionsMatchOnParts ==
    /\ pc = "lib_parts"
    /\ ret' = [parts |-> ret.parts,
               match |-> definitions_match(ret.parts, args.remote_definition)]
    /\ pc' = "lib_return"
    /\ UNCHANGED <<cfgVars, svcVars, respVars, runVars, calls, lostWrite, exitCode,
                   runNo, prev, args>>

NextParts ==
    \/ CallBuildParts
    \/ CallDefinitionsMatchOnParts

SpecParts == InitParts /\ [][NextParts]_vars

----------------------------------------------------------------------------
(* Properties of build_parts *)

\* the paths of the files of the folder that are not excluded
KeptPaths == {f.path : f \in {g \in args.files : PathName(g.path) \notin EXCLUDED_FILES}}

\* the order as stated: the parts come in the order of their paths as strings
C32_StringOrder ==
    pc \in {"lib_parts", "lib_return"}
    => \A i, j \in 1..Len(ret.parts) :
          i < j => StrLess(ret.parts[i].path, ret.parts[j].path)

\* C32: the parts are those of the files that are not excluded, one per file, in
\* the order of their relative paths compared name by name (the names between the
\* "/" as strings, a path coming before the paths it is a proper prefix of),
\* whatever the order in which the walk yields the files
C32_PartsOrder ==
    pc \in {"lib_parts", "lib_return"}
    => /\ {ret.parts[i].path : i \in 1..Len(ret.parts)} = KeptPaths
       /\ \A i, j \in 1..Len(ret.parts) :
             i < j => PartsLess(PathParts(ret.parts[i].path), PathParts(ret.parts[j].path))

\* a.b and a/b: the nested file comes first, the string "a.b" is the smaller one
C32_Witness ==
    /\ pc = "lib_parts"
    /\ Cardinality(args.files) = 3
    /\ Len(ret.parts) = 3
    /\ ret.parts[1].path = PF_B
    /\ ret.parts[2].path = PF_a_b
    /\ ret.parts[3].path = PF_adotb

\* the remote definition without its .platform parts
WithoutPlatform(definition) ==
    PartsDef(SelectSeq(definition.parts, LAMBDA q : PathName(q.path) # DotPlatform))

\* C33: no part that build_parts returns has the base name .platform, at any
\* depth, and definitions_match gives what it gives for the remote definition
\* without its .platform parts
C33_PlatformIgnored ==
    /\ pc \in {"lib_parts", "lib_return"}
       => \A i \in 1..Len(ret.parts) : PathName(ret.parts[i].path) # DotPlatform
    /\ pc = "lib_return"
       => ret.match = definitions_match(ret.parts, WithoutPlatform(args.remote_definition))

\* a folder with .platform at two depths and one other file; the remote
\* definition holds that file and a nested .platform with other bytes; they match
C33_Witness ==
    /\ pc = "lib_return"
    /\ args.files = {File(DotPlatform, RawBytes(1)), File(PF_a_platform, RawBytes(1)),
                     File(PF_B, RawBytes(1))}
    /\ \E i \in 1..Len(args.remote_definition.parts) :
          args.remote_definition.parts[i] = EncodePart(File(PF_a_platform, RawBytes(2)))
    /\ Len(ret.parts) = 1
    /\ ret.match = TRUE

----------------------------------------------------------------------------
(* list_workspace_items and list_workspace_items_full step by step: one       *)
(* action per iteration of the while loop.  args holds the function called    *)
(* and the pages the service serves, one per request: the value list of the   *)
(* page and what it carries under continuationUri (a URI, null, the empty     *)
(* string or nothing); the last page may be an error answer.  Every page but  *)
(* the last carries a URI, and no two items of the listing have the same key. *)
(* ret holds the locals of the function: the page the next request is for     *)
(* (0 when url is falsy), the pages requested so far, index and items.        *)

MaxPages     == 2    \* pages of a listing
MaxPageItems == 2    \* items on a page

ListCatalog ==
    {WsItem(1, <<"A">>, T_Lakehouse, NoneDef),
     WsItem(2, <<"b">>, T_Notebook, NoneDef),
     WsItem(4, <<"S">>, T_SQLEndpoint, NoneDef)}

\* body.get("value", []): up to MaxPageItems items, none twice
PageValues ==
    {q \in UNION {[1..n -> ListCatalog] : n \in 0..MaxPageItems} :
        \A i, j \in 1..Len(q) : q[i] = q[j] => i = j}

Page(status, value, cursor) == [status |-> status, value |-> value, cursor |-> cursor]

Pages ==
    {Page(200, v, c) : v \in PageValues, c \in {"uri", "null", "empty", "absent"}}
    \cup {Page(500, << >>, "absent")}

Listings ==
    {ps \in UNION {[1..n -> Pages] : n \in 1..MaxPages} :
        /\ \A i \in 1..Len(ps) : (ps[i].cursor = "uri") <=> (i < Len(ps))
        /\ \A i, j \in 1..Len(ps) :
              i # j => Range(ps[i].value) \cap Range(ps[j].value) = {}}

InitList ==
    /\ Idle
    /\ pc = "list_loop"
    /\ args \in [fn : {"list_workspace_items", "list_workspace_items_full"},
                 pages : Listings]
    /\ ret = [url |-> 1, requested |-> << >>, index |-> << >>, items |-> << >>,
              exc |-> "none"]

listFrame == <<cfgVars, svcVars, respVars, runVars, calls, lostWrite, exitCode, runNo,
               prev, args>>

\* a loop that stops after the first page
NextUrl_firstPageOnly(page, url) == 0

\* url = body.get("continuationUri"): the page the URI leads to, 0 for a value
\* that ends the loop
NextUrl(page, url) == IF page.cursor = "uri" THEN url + 1 ELSE 0

\* one iteration: the request, raise_for_status, the items, the next url
ListPage ==
    /\ pc = "list_loop"
    /\ ret.url # 0
    /\ LET page == args.pages[ret.url]
           seen == Append(ret.requested, ret.url)
       IN  IF page.status # 200
           THEN /\ ret' = [ret EXCEPT !.requested = seen, !.exc = "HTTPError"]
                /\ pc' = "list_raise"
           ELSE /\ ret' = [ret EXCEPT
                             !.requested = seen,
                             !.index = IF args.fn = "list_workspace_items"
                                       THEN IndexOf(page.value, @) ELSE @,
                             !.items = IF args.fn = "list_workspace_items_full"
                                       THEN @ \o page.value ELSE @,
                             !.url = NextUrl(page, ret.url)]
                /\ pc' = "list_loop"
    /\ UNCHANGED listFrame

\* while url: is false; return index / return items
ListReturn ==
    /\ pc = "list_loop"
    /\ ret.url = 0
    /\ pc' = "list_return"
    /\ UNCHANGED <<listFrame, ret>>

NextList == ListPage \/ ListReturn

\* every request is answered or times out after 60 seconds
SpecList == InitList /\ [][NextList]_vars /\ WF_vars(NextList)

----------------------------------------------------------------------------
(* Properties of the listings *)

ListDone == pc \in {"list_return", "list_raise"}

\* the items of the pages 1..n, in order
RECURSIVE ItemsUpTo(_)
ItemsUpTo(n) == IF n = 0 THEN << >> ELSE ItemsUpTo(n - 1) \o args.pages[n].value

\* while the loop runs the pages requested are 1, 2, ... in order, each once; a
\* listing that returns has requested every page, and holds every item of every
\* page: the list in page order, the index under each item's key
C35_Pages ==
    /\ \A i \in 1..Len(ret.requested) : ret.requested[i] = i
    /\ pc = "list_loop" /\ ret.url # 0 => ret.url = Len(ret.requested) + 1
    /\ pc = "list_return"
       => /\ Len(ret.requested) = Len(args.pages)
          /\ args.pages[Len(args.pages)].cursor # "uri"
          /\ args.fn = "list_workspace_items_full"
             => ret.items = ItemsUpTo(Len(args.pages))
          /\ args.fn = "list_workspace_items"
             => /\ DOMAIN ret.index = {ItemKey(w) : w \in Range(ItemsUpTo(Len(args.pages)))}
                /\ \A w \in Range(ItemsUpTo(Len(args.pages))) : ret.index[ItemKey(w)] = w.id

\* C35: the listing follows the continuation cursor until a page carries none:
\* it requests each page once, in order, ends, and its result holds every item
\* of every page
C35_FollowsCursor == []C35_Pages /\ <>ListDone

\* two pages, the second one ending the listing with an empty string
C35_Witness ==
    /\ pc = "list_return"
    /\ args.fn = "list_workspace_items"
    /\ Len(args.pages) = 2
    /\ args.pages[2].cursor = "empty"
    /\ Len(args.pages[1].value) = 1 /\ Len(args.pages[2].value) = 2
    /\ ret.requested = <<1, 2>>
    /\ Cardinality(DOMAIN ret.index) = 3

----------------------------------------------------------------------------
(* Properties of the deploy loop and the delete step of main() *)

ItemCounters == {"created", "deployed", "skipped", "errors"}

ItemTally == results.created + results.deployed + results.skipped + results.errors

\* in the loop the four counters add up to the number of items processed, and
\* to the number of items of the work set when the loop ends
C36_Sum ==
    pc = "deploy"
    => /\ ItemTally = idx - 1
       /\ results.deleted = 0
       /\ idx > Len(orderedItems) => ItemTally = Len(orderedItems)

\* processing an item adds one to one of the four counters and leaves the others;
\* within a run no counter goes down, and deleted changes in the delete loop only
C36_Step ==
    /\ InDeployLoop
       => \E counter \in ItemCounters : results' = [results EXCEPT ![counter] = @ + 1]
    /\ pc # "done"
       => \A counter \in DOMAIN results : results'[counter] >= results[counter]
    /\ (pc # "done" /\ results'.deleted # results.deleted)
       => pc = "deleting"

\* C36: every item of the work set adds exactly one to exactly one of created,
\* updated, skipped, errors, no counter ever goes down, the four add up to the
\* size of the work set when step 3 ends, and deleted changes in step 4 only
C36_TallyAccounting == []C36_Sum /\ [][C36_Step]_vars

\* the end of step 3 over two items: one created, one errored
C36_Witness ==
    /\ pc = "deploy"
    /\ idx > Len(orderedItems)
    /\ Len(orderedItems) = 2
    /\ results.errors = 1
    /\ results.created = 1

\* the identity keys of the local items of a type that is deployed
DeployableLocalKeys ==
    {FolderKey(f) : f \in {g \in tree : RFindDot(g) # 0 /\ ItemTypeOf(g) \notin NO_DEPLOY_TYPES}}

\* C37: a full run issues no delete for a workspace item whose identity key is
\* that of a local item of a deployable type, whatever the outcome of that item
C37_LocalNeverDeleted ==
    ~selective
    => \A c \in CallsWith({"delete"}) :
          KeyOf(c.displayName, c.type) \notin DeployableLocalKeys

\* a full run in which the notebook's comparison failed, the notebook of the
\* workspace is still there and another workspace item was deleted
C37_Witness ==
    /\ pc = "done"
    /\ ~selective
    /\ \E k \in 1..Len(outcomes) :
          /\ outcomes[k].counter = "errors"
          /\ \E w \in remote : ItemKey(w) = FolderKey(outcomes[k].folder)
    /\ \E c \in CallsWith({"delete"}) : c.exc = "none"

WriteOps == {"create", "update"}

\* no item has two write calls; at each item of the loop the outcomes of all
\* items before it are tallied, in order; every call for an item is followed by
\* that item's tally
C31_OneWrite ==
    /\ \A i, j \in 1..Len(calls) :
          (i < j /\ calls[i].op \in WriteOps /\ calls[j].op \in WriteOps)
          => calls[i].folder # calls[j].folder
    /\ pc = "deploy"
       => /\ Len(outcomes) = idx - 1
          /\ \A k \in 1..Len(outcomes) : outcomes[k].folder = orderedItems[k]
    /\ \A i \in 1..Len(calls) :
          calls[i].folder # << >>
          => \E k \in 1..Len(outcomes) : outcomes[k].folder = calls[i].folder

\* the step of an item issues its calls one after the other, for that item only:
\* nothing, a create, a getDefinition, or a getDefinition and then an update; it
\* ends with the item's tally; no other step issues a call for an item
C31_Step ==
    LET issued == SubSeq(calls', Len(calls) + 1, Len(calls'))
    IN  /\ InDeployLoop
           => /\ SubSeq(calls', 1, Len(calls)) = calls
              /\ Len(issued) <= 2
              /\ \A i \in 1..Len(issued) : issued[i].folder = orderedItems[idx]
              /\ Len(issued) = 2
                 => issued[1].op = "getDefinition" /\ issued[2].op = "update"
              /\ Len(outcomes') = Len(outcomes) + 1
              /\ outcomes'[Len(outcomes')].folder = orderedItems[idx]
              /\ idx' = idx + 1
        /\ (~InDeployLoop /\ pc # "done")
           => \A i \in 1..Len(issued) : issued[i].folder = << >>

\* C31: the items are processed one after the other and nothing is tried again:
\* the calls of an item are issued in its own step, after the tallies of all
\* items before it, and an item has at most one create or update call in a run
C31_Sequential == []C31_OneWrite /\ [][C31_Step]_vars

\* a run whose update failed: no second update, and the next item was processed
C31_Witness ==
    /\ pc = "done"
    /\ Len(orderedItems) = 2
    /\ \E i \in 1..Len(calls) :
          /\ calls[i].op = "update" /\ calls[i].exc # "none"
          /\ calls[i].folder = orderedItems[1]
    /\ Len(outcomes) = 2

============================================================================
